---- MODULE Spec2Model ----
(***************************************************************************)
(* A model of the tile-map editor / sprite runtime of this repository.     *)
(*                                                                         *)
(* Two versions of the editor live in the source tree:                     *)
(*   - src/src/game.cpp : class Game, the sparse map (a vector of placed   *)
(*     tiles per layer), Edit and Play mode;                               *)
(*   - src/src/gui.cpp  : class Gui, the dense map (a 15 x 10 grid of      *)
(*     catalog indices per layer).                                         *)
(* The variable `variant` says which of the two programs a behaviour runs. *)
(* Both programs are single threaded; `pc` is the position of the one      *)
(* thread inside frame(): "idle" (between two calls of frame()), "events"  *)
(* (inside the SDL_PollEvent loop) and "render" (after the loop).          *)
(*                                                                         *)
(* Units: tile positions and raw pointer coordinates are whole pixels; the *)
(* player position is kept in 1/100 pixel (the code uses float), so that   *)
(* Character::speed = 0.06 px/ms is the integer 6.                         *)
(***************************************************************************)
EXTENDS Integers, Sequences, FiniteSets, TLC

\* ------------------------------------------------------------- bounds ----
\* The clock stops being read past MaxNow milliseconds (caps every run).
MaxNow == 330
\* SDL's event queue holds at most MaxQueue pending events.
MaxQueue == 2
\* Heap addresses handed out by build() are 1..MaxAddr.
MaxAddr == 3
\* Raw click coordinates of the one-click session run over 0..MaxRaw.
MaxRaw == 40
\* SDL_GetTicks() passes a multiple of 2^32 at most MaxWraps times.
MaxWraps == 1

\* -------------------------------------------------- program constants ----
gridSize == 16
minFrameDuration == 1000 \div 30
minimizedDelay == 10
speed == 6
GridW == 15
GridH == 10
\* std::numeric_limits<size_t>::max(), the dense map's empty sentinel; here
\* the largest integer TLC has.
EMPTY == 2147483647

VARIABLES
  variant,            \* "game" | "gui": which program runs ("sprite": one
                      \* CharacterSprite on its own, see SpecRect)
  \* -- the environment (SDL)
  \* The last value SDL_GetTicks() returned, a Uint64, is wraps * 2^32 + now
  \* with now < 2^32; an elapsed time is written the same way, as a record
  \* [wraps, ms].
  now, wraps,
  queue,              \* SDL's pending events
  mouse,              \* the pointer position SDL_GetMouseState reports
  keys,               \* the arrow keys SDL_GetKeyboardState reports held
  minimized,          \* SDL_WINDOW_MINIMIZED
  \* -- the thread inside frame(): its position and the local `fps`, an
  \* elapsed time [wraps, ms]
  pc, fps,
  \* -- class Game (game.cpp)
  last_, frameCount_, done_, player_, characters_, enemies_,
  map_, mapWall_, tileCursorPos_, showTileSelector_, gameGui_,
  \* -- class Gui (gui.cpp)
  last, frameCount, done, characters, enemies, map, mapWall,
  characterIndex, enemyIndex, tileIndex, checkBoxRuning, checkBoxWall,
  \* -- observation (history) variables, read by no action's guard
  drawn,              \* the draw calls of the latest accepted tick, in order
  lastPoll,           \* how the latest call of frame() went on
  lastTick,           \* the clock [wraps, ms] at the latest accepted tick
  lastOp,             \* the click the latest step handled, if it handled one
  want,               \* per (layer, cell): the tile the clicks so far ask for
  anim                \* per sprite: its renders so far

envVars == <<now, wraps, queue, mouse, keys, minimized>>
gameVars == <<last_, frameCount_, done_, player_, characters_,
              enemies_, map_, mapWall_, tileCursorPos_, showTileSelector_,
              gameGui_>>
guiVars == <<last, frameCount, done, characters, enemies, map, mapWall,
             characterIndex, enemyIndex, tileIndex, checkBoxRuning,
             checkBoxWall>>
obsVars == <<drawn, lastPoll, lastTick, lastOp, want, anim>>
vars == <<variant, envVars, pc, fps, gameVars, guiVars, obsVars>>

\* ------------------------------------------------------------ helpers ----
\* std::fmod(v, m) for v >= 0, m > 0 on whole numbers.
fmod(v, m) == v % m

\* Division truncating toward zero, as a float product cut to the unit.
TruncDiv(a, b) == IF a >= 0 THEN a \div b ELSE -((-a) \div b)

\* cos and sin of the eight angles checkKeys sets, in thousandths.
Cos1000(deg) ==
  CASE deg = 0 -> 1000 [] deg = 45 -> 707 [] deg = 90 -> 0
    [] deg = 135 -> -707 [] deg = 180 -> -1000 [] deg = 225 -> -707
    [] deg = 270 -> 0 [] deg = 315 -> 707

Sin1000(deg) ==
  CASE deg = 0 -> 0 [] deg = 45 -> 707 [] deg = 90 -> 1000
    [] deg = 135 -> 707 [] deg = 180 -> 0 [] deg = 225 -> -707
    [] deg = 270 -> -1000 [] deg = 315 -> -707

\* The permutations of 1..n.
Perms(n) == {p \in [1..n -> 1..n] : \A i, j \in 1..n : p[i] = p[j] => i = j}

\* The permutations of the sequence s.
Permuted(s) == {[i \in 1..Len(s) |-> s[p[i]]] : p \in Perms(Len(s))}


\* ------------------------------------------------------------ catalogs ----
\* CharacterSprite's constructor (sprite.cpp 52-55).
NewSprite(kind, canRun, canHit) ==
  [kind |-> kind, index |-> 0, hit |-> FALSE, running |-> FALSE, direction |-> FALSE,
   canRun |-> canRun, canHit |-> canHit, x |-> 0, y |-> 0]

\* What Game::loadEntities reads from a tile list holding two terrain
\* records (one "terrain", one "terrainA"), two "character" records, one
\* "enemy" and one "enemyw" record.
tiles_ == <<[name |-> "floor", alpha |-> FALSE], [name |-> "wall", alpha |-> TRUE]>>
LoadedCharacters ==
  <<NewSprite("character", TRUE, TRUE), NewSprite("character", TRUE, TRUE)>>
LoadedEnemies ==
  <<NewSprite("enemy", TRUE, FALSE), NewSprite("enemy", FALSE, FALSE)>>

\* Gui::loadCharacters, Gui::loadEnemies, Gui::loadTiles.
GuiCharacters == [i \in 1..10 |-> NewSprite("character", TRUE, TRUE)]
GuiEnemies == [i \in 1..5 |-> NewSprite("enemy", TRUE, FALSE)]
tiles ==
  <<"floor 1", "floor 2", "wall edge bottom left", "wall edge left",
    "wall edge mid left", "wall edge top left",
    "wall edge tshape bottom right">>

\* ------------------------------------------------------ CharacterSprite ----
setHit(s) == [s EXCEPT !.hit = TRUE]
setRunning(s, dir) == [s EXCEPT !.running = TRUE, !.direction = dir]
\* The overload without argument that checkKeys calls (game.cpp 428, 440):
\* the sprite runs and keeps its facing.
setRunningAhead(s) == [s EXCEPT !.running = TRUE]
setIdle(s) == [s EXCEPT !.running = FALSE]
setPos(s, x, y) == [s EXCEPT !.x = x, !.y = y]

incIndex(s) == [s EXCEPT !.index = (s.index + 1) % 4]

\* The texture rectangles, as the number of columns (of width sourceRect_.w)
\* the rectangle lies right of the sprite's atlas origin.
getIdleTextureRect(s) == s.index
getRunTextureRect(s) == s.index + 4
getHitTextureRect(s) == s.index + 8

\* Mutant of getTextureRect: the hit flag is left set.
MutKeepHit(s) ==
  IF s.canHit /\ s.hit
  THEN [sprite |-> s, col |-> getHitTextureRect(s)]
  ELSE IF s.canRun /\ s.running
  THEN [sprite |-> s, col |-> getRunTextureRect(s)]
  ELSE [sprite |-> s, col |-> getIdleTextureRect(s)]

\* Mutant of getTextureRect: the hit cell is shown whatever canHit says.
MutHitUngated(s) ==
  IF s.hit
  THEN [sprite |-> [s EXCEPT !.hit = FALSE], col |-> getHitTextureRect(s)]
  ELSE IF s.canRun /\ s.running
  THEN [sprite |-> s, col |-> getRunTextureRect(s)]
  ELSE [sprite |-> s, col |-> getIdleTextureRect(s)]

\* getTextureRect returns a rectangle and may clear the hit flag.
getTextureRect(s) ==
  IF s.canHit /\ s.hit
  THEN [sprite |-> [s EXCEPT !.hit = FALSE], col |-> getHitTextureRect(s)]
  ELSE IF s.canRun /\ s.running
  THEN [sprite |-> s, col |-> getRunTextureRect(s)]
  ELSE [sprite |-> s, col |-> getIdleTextureRect(s)]

\* Mutant of render: the index advances on every frame count.
MutRenderEveryFrame(s, count) ==
  LET s1 == incIndex(s)
      r == getTextureRect(s1)
  IN [sprite |-> r.sprite,
      quad |-> [k |-> s1.kind, def |-> 0, x |-> s1.x, y |-> s1.y,
                col |-> r.col, flip |-> s1.direction]]

\* CharacterSprite::render: the sprite after the call and the quad drawn.
render(s, count) ==
  LET s1 == IF count % 2 = 0 THEN incIndex(s) ELSE s
      r == getTextureRect(s1)
  IN [sprite |-> r.sprite,
      quad |-> [k |-> s1.kind, def |-> 0, x |-> s1.x, y |-> s1.y,
                col |-> r.col, flip |-> s1.direction]]

\* ------------------------------------------------------------ Character ----
\* Mutant of update: the player moves at Character::speed whatever its
\* radius.
MutUpdateAtSpeed(p, deltaTime) ==
  LET r == deltaTime.ms * speed
  IN [p EXCEPT !.x = p.x + TruncDiv(r * Cos1000(p.angle), 1000),
               !.y = p.y + TruncDiv(r * Sin1000(p.angle), 1000)]

\* Character::update: pos_ += Vec{PolarVec{deltaTime * radius, angle}}.
\* deltaTime is an elapsed time [wraps, ms]; the radius is 0 whenever no
\* arrow key is held.
update(p, deltaTime) ==
  LET r == IF p.radius = 0 THEN 0
           ELSE IF deltaTime.wraps = 0 THEN deltaTime.ms * p.radius
           ELSE (deltaTime.wraps * 2^16 * 2^16 + deltaTime.ms) * p.radius
  IN [p EXCEPT !.x = p.x + TruncDiv(r * Cos1000(p.angle), 1000),
               !.y = p.y + TruncDiv(r * Sin1000(p.angle), 1000)]

\* Game::checkKeys on the player and the selected character sprite.
checkKeys(p, c, held) ==
  IF "UP" \in held THEN
    IF "LEFT" \in held
    THEN [player |-> [p EXCEPT !.radius = speed, !.angle = 135],
          sprite |-> setRunning(c, TRUE)]
    ELSE IF "RIGHT" \in held
    THEN [player |-> [p EXCEPT !.radius = speed, !.angle = 45],
          sprite |-> setRunning(c, FALSE)]
    ELSE [player |-> [p EXCEPT !.radius = speed, !.angle = 90],
          sprite |-> setRunningAhead(c)]
  ELSE IF "DOWN" \in held THEN
    IF "LEFT" \in held
    THEN [player |-> [p EXCEPT !.radius = speed, !.angle = 225],
          sprite |-> setRunning(c, TRUE)]
    ELSE IF "RIGHT" \in held
    THEN [player |-> [p EXCEPT !.radius = speed, !.angle = 315],
          sprite |-> setRunning(c, FALSE)]
    ELSE [player |-> [p EXCEPT !.radius = speed, !.angle = 270],
          sprite |-> setRunningAhead(c)]
  ELSE IF "LEFT" \in held
  THEN [player |-> [p EXCEPT !.radius = speed, !.angle = 180],
        sprite |-> setRunning(c, TRUE)]
  ELSE IF "RIGHT" \in held
  THEN [player |-> [p EXCEPT !.radius = speed, !.angle = 0],
        sprite |-> setRunning(c, FALSE)]
  ELSE [player |-> [p EXCEPT !.radius = 0], sprite |-> setIdle(c)]

\* ------------------------------------------------- the sparse map (Game) ----
\* Mutant of EditorPoint: the raw point is halved without being snapped.
MutPointNoSnap(event) ==
  [x |-> event.x \div 2, y |-> (event.y + gridSize * 2) \div 2]

\* Mutant of EditorPoint: y is not moved to the cell's lower edge.
MutPointNoOffset(event) ==
  [x |-> (event.x - fmod(event.x, gridSize * 2)) \div 2,
   y |-> (event.y - fmod(event.y, gridSize * 2)) \div 2]

\* The point processEventEditor computes from a click (game.cpp 366-370 and
\* 388-392): x snapped to the 32 pixel pitch and halved, y snapped, moved to
\* the cell's lower edge and halved.
EditorPoint(event) ==
  [x |-> (event.x - fmod(event.x, gridSize * 2)) \div 2,
   y |-> (event.y - fmod(event.y, gridSize * 2) + gridSize * 2) \div 2]

\* Renderable::isSamePos (module tile): the tile stands at that point.
isSamePos(tile, point) == tile.x = point.x /\ tile.y = point.y

\* RendererBuilder::build (module tile): a new tile of catalog entry def, on
\* the heap at address addr.
build(def, addr) == [def |-> def, x |-> 0, y |-> 0, addr |-> addr, level |-> FALSE]

\* Mutant of erase_if: the predicate compares the x coordinate only.
MutEraseSameColumn(layer, point) == SelectSeq(layer, LAMBDA t : t.x # point.x)

\* std::erase_if(layer, [point](auto &tile) { return tile->isSamePos(point); })
erase_if(layer, point) == SelectSeq(layer, LAMBDA t : ~isSamePos(t, point))

\* Mutant of PlaceTile: the new tile is pushed without erasing the old one.
MutPlaceNoErase(layer, tile, point) == Append(layer, tile)

\* The left click's two statements on the chosen layer (game.cpp 376-378,
\* 380-382): erase what stands at point, push the new tile.
PlaceTile(layer, tile, point) == Append(erase_if(layer, point), tile)

\* The addresses build() may return for a ground tile: any address no live
\* ground tile has.  (Only the ground layer is ever ordered by address, so
\* wall tiles carry address 0.)
FreeAddr == (1..MaxAddr) \ {map_[i].addr : i \in 1..Len(map_)}

IsLeftDown(event) == event.type = "MOUSE_BUTTON_DOWN" /\ event.button = "LEFT"
IsRightDown(event) == event.type = "MOUSE_BUTTON_DOWN" /\ event.button = "RIGHT"

\* Mutant of YLess: the comparison is reversed.
MutYGreater(lhs, rhs) == lhs.y > rhs.y

\* The orders of the two sorts of Game::frame (game.cpp 316-319):
\* unique_ptr's own order (the address) and the tile's y.
AddrLess(lhs, rhs) == lhs.addr < rhs.addr
YLess(lhs, rhs) == lhs.y < rhs.y

\* What std::ranges::sort may leave in place of a layer: any permutation
\* with no element less than an earlier one (the sort is not stable:
\* equivalent elements may come out in any order).
SortedByAddr(s) ==
  {t \in Permuted(s) : \A i, j \in 1..Len(s) : i < j => ~AddrLess(t[j], t[i])}
SortedByY(s) ==
  {t \in Permuted(s) : \A i, j \in 1..Len(s) : i < j => ~YLess(t[j], t[i])}

TileQuad(kind, tile) ==
  [k |-> kind, def |-> tile.def, x |-> tile.x, y |-> tile.y, col |-> 0,
   flip |-> FALSE]

\* Mutant of InFront: a wall level with the character counts as in front.
MutInFrontOrLevel(tile, character) == tile.y * 100 >= character.y

\* The test of the wall loop: tile->getPos().y > character.getPos().y, the
\* tile's y in pixels, the character's in hundredths of a pixel.
InFront(tile, character) == tile.y * 100 > character.y

\* The wall loop of Game::showMap (game.cpp 466-477) from wall tile i on:
\* st.character is the selected sprite, st.crendered the flag, st.quads the
\* draw calls so far.
RECURSIVE WallPass(_, _, _, _)
WallPass(walls, i, count, st) ==
  IF i > Len(walls)
  THEN IF ~st.crendered
       THEN LET r == render(st.character, count)
            IN [character |-> r.sprite, crendered |-> TRUE,
                quads |-> Append(st.quads, r.quad)]
       ELSE st
  ELSE LET tile == walls[i]
           first == ~st.crendered /\ InFront(tile, st.character)
           r == render(st.character, count)
           st1 == IF first
                  THEN [character |-> r.sprite, crendered |-> TRUE,
                        quads |-> Append(st.quads, r.quad)]
                  ELSE st
       IN WallPass(walls, i + 1, count,
                   [st1 EXCEPT !.quads = Append(@, TileQuad("wall", tile))])

\* Game::showMap: the ground tiles, then the wall loop.
showMap(ground, walls, character, count) ==
  WallPass(walls, 1, count,
           [character |-> character, crendered |-> FALSE,
            quads |-> [i \in 1..Len(ground) |-> TileQuad("ground", ground[i])]])

\* ------------------------------------------------------------- events ----
Click(button, point, claimed) ==
  [button |-> button, claimed |-> claimed, key |-> "none", own |-> TRUE,
   type |-> "MOUSE_BUTTON_DOWN", x |-> point[1], y |-> point[2]]
Key(type, key, claimed) ==
  [button |-> "none", claimed |-> claimed, key |-> key, own |-> TRUE,
   type |-> type, x |-> 0, y |-> 0]
Quit(claimed) == Key("QUIT", "none", claimed)
\* SDL_EVENT_WINDOW_CLOSE_REQUESTED for this window (own) or another one.
Close(own, claimed) ==
  [button |-> "none", claimed |-> claimed, key |-> "none", own |-> own,
   type |-> "WINDOW_CLOSE_REQUESTED", x |-> 0, y |-> 0]

\* -------------------------------------------------------- observation ----
\* The cell of the 32 pixel placement grid a raw point lies in, by its
\* upper left corner.
Cell(x, y) == <<x - (x % 32), y - (y % 32)>>

NoOp == [kind |-> "none", wall |-> FALSE, x |-> 0, y |-> 0, def |-> 0, old |-> 0]

\* want after a left click (place) and after a right click (remove): a left
\* click asks for catalog entry def at its cell, a right click for nothing
\* there.
WantPlace(wall, event, def) ==
  {r \in want : ~(r.wall = wall /\ r.cell = Cell(event.x, event.y))}
    \cup {[wall |-> wall, cell |-> Cell(event.x, event.y), def |-> def]}
WantRemove(wall, event) ==
  {r \in want : ~(r.wall = wall /\ r.cell = Cell(event.x, event.y))}
Wanted(wall, cell) == {r \in want : r.wall = wall /\ r.cell = cell}

\* lastOp and want after the editor handled a click: the click found a tile
\* asked for at its cell ("replace", "remove") or none ("place", "miss");
\* old is the catalog entry that was asked for there, -1 for none.
ObserveClick(event, wall, def) ==
  LET found == Wanted(wall, Cell(event.x, event.y))
      old == IF found = {} THEN -1 ELSE (CHOOSE r \in found : TRUE).def
  IN IF event.button = "LEFT"
     THEN /\ lastOp' = [kind |-> IF found = {} THEN "place" ELSE "replace",
                        wall |-> wall, x |-> event.x, y |-> event.y,
                        def |-> def, old |-> old]
          /\ want' = WantPlace(wall, event, def)
     ELSE /\ lastOp' = [kind |-> IF found = {} THEN "miss" ELSE "remove",
                        wall |-> wall, x |-> event.x, y |-> event.y,
                        def |-> def, old |-> old]
          /\ want' = WantRemove(wall, event)

NoRender ==
  [renders |-> 0, advances |-> 0, mode |-> "none", prev |-> "none",
   hitSince |-> FALSE, hitBetween |-> FALSE, count |-> 0, before |-> 0,
   after |-> 0]

\* A sprite's record after the renders of one frame: s the sprite before
\* them, after the sprite after them, quads the quads they drew, count the
\* frame count handed to render.
ObserveRender(a, s, after, quads, count) ==
  IF quads = <<>> THEN a
  ELSE LET q == quads[Len(quads)]
       IN [renders |-> a.renders + Len(quads),
           advances |-> a.advances + (IF after.index # s.index THEN 1 ELSE 0),
           mode |-> CASE q.col - after.index = 8 -> "hit"
                      [] q.col - after.index = 4 -> "run"
                      [] OTHER -> "idle",
           prev |-> a.mode, hitSince |-> FALSE, hitBetween |-> a.hitSince,
           count |-> count, before |-> s.index, after |-> after.index]

ObserveHit(a) == [a EXCEPT !.hitSince = TRUE]

\* -------------------------------------------------------- environment ----
\* An event enters SDL's queue (between two calls of frame()).
PushEvent(event) ==
  /\ pc = "idle"
  /\ Len(queue) < MaxQueue
  /\ queue' = Append(queue, event)
  /\ mouse' = IF event.type = "MOUSE_BUTTON_DOWN" THEN <<event.x, event.y>> ELSE mouse
  /\ UNCHANGED <<variant, now, wraps, keys, minimized, pc, fps, gameVars, guiVars, obsVars>>

\* The user presses or releases arrow keys.
SetKeys(held) ==
  /\ pc = "idle"
  /\ keys # held
  /\ keys' = held
  /\ UNCHANGED <<variant, now, wraps, queue, mouse, minimized, pc, fps, gameVars, guiVars,
                 obsVars>>

\* The window is minimized or restored.
SetMinimized(flag) ==
  /\ pc = "idle"
  /\ minimized # flag
  /\ minimized' = flag
  /\ UNCHANGED <<variant, now, wraps, queue, mouse, keys, pc, fps, gameVars, guiVars,
                 obsVars>>

\* Mutant of SDL_PollEvent: the poll hands out the first pending event and
\* flushes the others.
MutPollFlushes(q) == [event |-> Head(q), rest |-> <<>>]

\* SDL_PollEvent(&event) on a non-empty queue q (game.cpp 261, gui.cpp 191):
\* the event it hands out, the oldest one, and the queue it leaves.
SDL_PollEvent(q) == [event |-> Head(q), rest |-> Tail(q)]

\* ------------------------------------------------------------ the clock ----
\* now - last for the Uint64 reading wraps * 2^32 + ms and the Uint32 field
\* last, which is promoted to Uint64: an elapsed time [wraps, ms].  (The
\* field holds the low 32 bits of an earlier reading, and the readings' low
\* parts grow in every run kept here, so ms >= last and nothing is
\* borrowed.)
Since(w, ms, field) == [wraps |-> w, ms |-> ms - field]

\* elapsed >= n, for n < 2^32.
AtLeast(elapsed, n) == elapsed.wraps > 0 \/ elapsed.ms >= n

\* Game::frame up to the event loop (game.cpp 292-306); SDL_GetTicks()
\* returns d milliseconds more than at its last call.  The caller's loop
\* runs frame() while !done().
FrameBegin(d, w) ==
  /\ variant = "game"
  /\ pc = "idle"
  /\ ~done_
  /\ now + d <= MaxNow
  /\ wraps + w <= MaxWraps
  /\ wraps' = wraps + w
  /\ LET t == now + d
         elapsed == Since(wraps + w, t, last_)
     IN IF AtLeast(elapsed, minFrameDuration)
        THEN /\ last_' = t
             /\ frameCount_' = frameCount_ + 1
             /\ fps' = elapsed
             /\ drawn' = <<>>
             /\ lastTick' = [wraps |-> wraps + w, ms |-> t]
             /\ IF minimized
                THEN /\ now' = t + minimizedDelay
                     /\ pc' = "idle"
                     /\ lastPoll' = "minimized"
                ELSE /\ now' = t
                     /\ pc' = "events"
                     /\ lastPoll' = "accepted"
        ELSE /\ now' = t
             /\ lastPoll' = "skipped"
             /\ UNCHANGED <<last_, frameCount_, fps, pc, drawn, lastTick>>
  /\ UNCHANGED <<variant, queue, mouse, keys, minimized, done_, player_,
                 characters_, enemies_, map_, mapWall_, tileCursorPos_,
                 showTileSelector_, gameGui_, guiVars, lastOp, want, anim>>

\* Mutant of EditorLeft: the erase is applied to the other layer as well.
MutLeftBothLayers(event, addr) ==
  LET point == EditorPoint(event)
      tile == [build(gameGui_.tileIndex, addr) EXCEPT !.x = point.x, !.y = point.y]
  IN IF gameGui_.wall
     THEN [map_ |-> erase_if(map_, point),
           mapWall_ |-> PlaceTile(mapWall_,
                                  [tile EXCEPT !.level = gameGui_.level, !.addr = 0],
                                  point)]
     ELSE [map_ |-> PlaceTile(map_, tile, point),
           mapWall_ |-> erase_if(mapWall_, point)]

\* Game::processEventEditor (game.cpp 363-404) for a left click, the new tile
\* built at address addr: the two layers after the call.
EditorLeft(event, addr) ==
  LET point == EditorPoint(event)
      tile == [build(gameGui_.tileIndex, addr) EXCEPT !.x = point.x, !.y = point.y]
  IN IF gameGui_.wall
     THEN [map_ |-> map_,
           mapWall_ |-> PlaceTile(mapWall_,
                                  [tile EXCEPT !.level = gameGui_.level, !.addr = 0],
                                  point)]
     ELSE [map_ |-> PlaceTile(map_, tile, point), mapWall_ |-> mapWall_]

\* Mutant of EditorRight: the wall toggle is read the wrong way round.
MutRightOtherLayer(event) ==
  LET point == EditorPoint(event)
  IN IF ~gameGui_.wall
     THEN [map_ |-> map_, mapWall_ |-> erase_if(mapWall_, point)]
     ELSE [map_ |-> erase_if(map_, point), mapWall_ |-> mapWall_]

\* Game::processEventEditor for a right click.
EditorRight(event) ==
  LET point == EditorPoint(event)
  IN IF gameGui_.wall
     THEN [map_ |-> map_, mapWall_ |-> erase_if(mapWall_, point)]
     ELSE [map_ |-> erase_if(map_, point), mapWall_ |-> mapWall_]

\* Game::processEventCharacter (game.cpp 406-413): the sprites after it.
processEventCharacter(event) ==
  IF event.type = "KEY_DOWN" /\ event.key = "A"
  THEN [characters_ EXCEPT ![gameGui_.characterIndex + 1] = setHit(@)]
  ELSE characters_

\* Mutant of ConsumedByOverlay: the grid cursor is shown all the same.
MutConsumedShowsCursor ==
  /\ showTileSelector_' = TRUE
  /\ lastOp' = NoOp
  /\ UNCHANGED <<pc, tileCursorPos_, done_, map_, mapWall_, characters_, want,
                 anim>>

\* The turn of an event the overlay claims (game.cpp 263-266): the grid
\* cursor is hidden and the loop continues with the next event.
ConsumedByOverlay ==
  /\ showTileSelector_' = FALSE
  /\ lastOp' = NoOp
  /\ UNCHANGED <<pc, tileCursorPos_, done_, map_, mapWall_, characters_, want,
                 anim>>

\* One turn of the loop of Game::processEvent (game.cpp 261-289).
ProcessEvent ==
  /\ variant = "game"
  /\ pc = "events"
  /\ queue # <<>>
  /\ LET event == SDL_PollEvent(queue).event
         ci == gameGui_.characterIndex + 1
     IN /\ queue' = SDL_PollEvent(queue).rest
        /\ IF event.claimed
           THEN ConsumedByOverlay
           ELSE /\ showTileSelector_' = TRUE
                /\ tileCursorPos_' =
                     <<mouse[1] - fmod(mouse[1], gridSize * 2),
                       mouse[2] - fmod(mouse[2], gridSize * 2)>>
                /\ done_' = (done_ \/ event.type = "QUIT"
                             \/ (event.type = "WINDOW_CLOSE_REQUESTED" /\ event.own))
                /\ IF gameGui_.editorMode /\ IsLeftDown(event)
                   THEN /\ \E addr \in FreeAddr :
                             LET m == EditorLeft(event, addr)
                             IN map_' = m.map_ /\ mapWall_' = m.mapWall_
                        /\ pc' = "render"
                        /\ ObserveClick(event, gameGui_.wall, gameGui_.tileIndex)
                        /\ UNCHANGED <<characters_, anim>>
                   ELSE IF gameGui_.editorMode /\ IsRightDown(event)
                   THEN /\ LET m == EditorRight(event)
                           IN map_' = m.map_ /\ mapWall_' = m.mapWall_
                        /\ pc' = "render"
                        /\ ObserveClick(event, gameGui_.wall, gameGui_.tileIndex)
                        /\ UNCHANGED <<characters_, anim>>
                   ELSE /\ characters_' = processEventCharacter(event)
                        /\ anim' = IF event.type = "KEY_DOWN" /\ event.key = "A"
                                   THEN [anim EXCEPT !.character[ci] = ObserveHit(@)]
                                   ELSE anim
                        /\ lastOp' = NoOp
                        /\ UNCHANGED <<pc, map_, mapWall_, want>>
  /\ UNCHANGED <<variant, now, wraps, mouse, keys, minimized, fps, last_, frameCount_,
                 player_, enemies_, gameGui_, guiVars, drawn, lastPoll, lastTick>>

\* The rest of Game::frame (game.cpp 310-334), entered when the event loop
\* ends: by an empty queue, or by the return after an editor click.  overlay
\* is what the widgets of the overlay hold when gameGui_->render returns.
FrameRender(overlay) ==
  /\ variant = "game"
  /\ pc = "render" \/ (pc = "events" /\ queue = <<>>)
  /\ LET ci == gameGui_.characterIndex + 1
         ei == gameGui_.enemyIndex + 1
         ck == checkKeys(player_, characters_[ci], keys)
         moved == update(ck.player, fps)
         character == setPos(ck.sprite, moved.x, moved.y)
         enemy == setPos(enemies_[ei], 300 * 100, 100 * 100)
         en == render(enemy, frameCount_)
     IN \E ground \in SortedByAddr(map_), walls \in SortedByY(mapWall_) :
          LET shown == showMap(ground, walls, character, frameCount_)
              cursor == IF gameGui_.editorMode /\ showTileSelector_
                        THEN <<[k |-> "cursor", def |-> 0, x |-> tileCursorPos_[1],
                                y |-> tileCursorPos_[2], col |-> 0, flip |-> FALSE]>>
                        ELSE <<>>
              ui == [k |-> "overlay", def |-> 0, x |-> 0, y |-> 0, col |-> 0,
                     flip |-> FALSE]
          IN /\ player_' = moved
             /\ map_' = ground
             /\ mapWall_' = walls
             /\ characters_' = [characters_ EXCEPT ![ci] = shown.character]
             /\ enemies_' = [enemies_ EXCEPT ![ei] = en.sprite]
             /\ drawn' = shown.quads \o cursor \o <<en.quad, ui>>
             /\ anim' = [anim EXCEPT
                           !.character[ci] =
                              ObserveRender(@, character, shown.character,
                                SelectSeq(shown.quads, LAMBDA q : q.k = "character"),
                                frameCount_),
                           !.enemy[ei] =
                              ObserveRender(@, enemy, en.sprite, <<en.quad>>,
                                            frameCount_)]
  /\ gameGui_' = overlay
  /\ pc' = "idle"
  /\ lastOp' = NoOp
  /\ UNCHANGED <<variant, envVars, fps, last_, frameCount_, done_,
                 tileCursorPos_, showTileSelector_, guiVars, lastPoll, lastTick, want>>

\* ------------------------------------------------------------- class Gui ----
\* Gui::frame up to processEvent (gui.cpp 290-300).
GuiFrameBegin(d, w) ==
  /\ variant = "gui"
  /\ pc = "idle"
  /\ ~done
  /\ now + d <= MaxNow
  /\ wraps + w <= MaxWraps
  /\ wraps' = wraps + w
  /\ LET t == now + d
         elapsed == Since(wraps + w, t, last)
     IN /\ now' = t
        /\ IF AtLeast(elapsed, 1000 \div 30)
           THEN /\ last' = t
                /\ lastTick' = [wraps |-> wraps + w, ms |-> t]
                /\ frameCount' = frameCount + 1
                /\ fps' = elapsed
                /\ pc' = "events"
                /\ lastPoll' = "accepted"
                /\ drawn' = <<>>
           ELSE /\ lastPoll' = "skipped"
                /\ UNCHANGED <<last, frameCount, fps, pc, drawn, lastTick>>
  /\ UNCHANGED <<variant, queue, mouse, keys, minimized, gameVars, done,
                 characters, enemies, map, mapWall, characterIndex, enemyIndex,
                 tileIndex, checkBoxRuning, checkBoxWall, lastOp, want, anim>>

\* size_t x = event.button.x / 32 (gui.cpp 201-202, 212-213), for x >= 0.
GridIndex(v) == v \div 32
InGrid(x, y) == x < GridW /\ y < GridH

\* Mutant of GuiLeft: the click fills the whole column of the chosen layer.
MutGuiLeftWholeColumn(event) ==
  LET x == GridIndex(event.x)
      y == GridIndex(event.y)
      column == [j \in 0..(GridH - 1) |-> tileIndex]
  IN IF InGrid(x, y)
     THEN IF checkBoxWall
          THEN [map |-> map, mapWall |-> [mapWall EXCEPT ![x] = column]]
          ELSE [map |-> [map EXCEPT ![x] = column], mapWall |-> mapWall]
     ELSE [map |-> map, mapWall |-> mapWall]

\* The two layers after the left click branch (gui.cpp 199-209).
GuiLeft(event) ==
  LET x == GridIndex(event.x)
      y == GridIndex(event.y)
  IN IF InGrid(x, y)
     THEN IF checkBoxWall
          THEN [map |-> map, mapWall |-> [mapWall EXCEPT ![x][y] = tileIndex]]
          ELSE [map |-> [map EXCEPT ![x][y] = tileIndex], mapWall |-> mapWall]
     ELSE [map |-> map, mapWall |-> mapWall]

\* The two layers after the right click branch (gui.cpp 210-220).
GuiRight(event) ==
  LET x == GridIndex(event.x)
      y == GridIndex(event.y)
  IN IF InGrid(x, y)
     THEN IF checkBoxWall
          THEN [map |-> map, mapWall |-> [mapWall EXCEPT ![x][y] = EMPTY]]
          ELSE [map |-> [map EXCEPT ![x][y] = EMPTY], mapWall |-> mapWall]
     ELSE [map |-> map, mapWall |-> mapWall]

\* The key branch (gui.cpp 222-232) on the selected character.
GuiKey(event, c) ==
  IF event.type = "KEY_DOWN" /\ event.key = "A" THEN setHit(c)
  ELSE IF event.type = "KEY_DOWN" /\ event.key = "RIGHT" THEN setRunning(c, FALSE)
  ELSE IF event.type = "KEY_DOWN" /\ event.key = "LEFT" THEN setRunning(c, TRUE)
  ELSE IF event.type = "KEY_UP" /\ event.key \in {"RIGHT", "LEFT"} THEN setIdle(c)
  ELSE c

\* One turn of the loop of Gui::processEvent (gui.cpp 191-233).
GuiProcessEvent ==
  /\ variant = "gui"
  /\ pc = "events"
  /\ queue # <<>>
  /\ LET event == SDL_PollEvent(queue).event
         m == IF IsLeftDown(event) THEN GuiLeft(event)
              ELSE IF IsRightDown(event) THEN GuiRight(event)
              ELSE [map |-> map, mapWall |-> mapWall]
     IN /\ queue' = SDL_PollEvent(queue).rest
        /\ done' = (done \/ event.type = "QUIT"
                    \/ (event.type = "WINDOW_CLOSE_REQUESTED" /\ event.own))
        /\ map' = m.map
        /\ mapWall' = m.mapWall
        /\ IF IsLeftDown(event) \/ IsRightDown(event)
           THEN ObserveClick(event, checkBoxWall, tileIndex)
           ELSE lastOp' = NoOp /\ UNCHANGED want
        /\ characters' = [characters EXCEPT ![characterIndex + 1] = GuiKey(event, @)]
        /\ anim' = IF event.type = "KEY_DOWN" /\ event.key = "A"
                   THEN [anim EXCEPT !.character[characterIndex + 1] = ObserveHit(@)]
                   ELSE anim
  /\ UNCHANGED <<variant, now, wraps, mouse, keys, minimized, pc, fps, gameVars, last,
                 frameCount, enemies, characterIndex, enemyIndex, tileIndex,
                 checkBoxRuning, checkBoxWall, drawn, lastPoll, lastTick>>

\* One layer's pass of Gui::showMap (gui.cpp 357-367, 369-379): the quads of
\* the cells holding a catalog index, column by column (i outer, j inner).
GridPass(layer, kind) ==
  LET cells == [n \in 1..(GridW * GridH) |->
                  [i |-> (n - 1) \div GridH, j |-> (n - 1) % GridH]]
      held == SelectSeq(cells, LAMBDA c : ~(layer[c.i][c.j] >= Len(tiles)))
  IN [n \in 1..Len(held) |->
        [k |-> kind, def |-> layer[held[n].i][held[n].j], x |-> held[n].i * 32,
         y |-> held[n].j * 32, col |-> 0, flip |-> FALSE]]

\* The rest of Gui::frame (gui.cpp 302-330), entered when the event loop
\* ends.  sel is what the widgets of renderCharacterSelector hold when it
\* returns: the indices picked in the three combos and the two check boxes.
GuiFrameRender(sel) ==
  /\ variant = "gui"
  /\ pc = "events"
  /\ queue = <<>>
  /\ pc' = "idle"
  /\ IF minimized
     THEN /\ now' = now + 10
          /\ lastPoll' = "minimized"
          /\ UNCHANGED <<characters, enemies, characterIndex, enemyIndex,
                         tileIndex, checkBoxRuning, checkBoxWall, drawn, anim>>
     ELSE LET ci == sel.characterIndex + 1
              ei == sel.enemyIndex + 1
              enemy == IF sel.checkBoxRuning # checkBoxRuning
                       THEN IF sel.checkBoxRuning
                            THEN setRunning(enemies[ei], FALSE)
                            ELSE setIdle(enemies[ei])
                       ELSE enemies[ei]
              ch == render(characters[ci], frameCount)
              en == render(enemy, frameCount)
              chQuad == [ch.quad EXCEPT !.x = 100 * 100, !.y = 100 * 100]
              enQuad == [en.quad EXCEPT !.x = 300 * 100, !.y = 100 * 100]
              ui == [k |-> "overlay", def |-> 0, x |-> 0, y |-> 0, col |-> 0,
                     flip |-> FALSE]
          IN /\ characterIndex' = sel.characterIndex
             /\ enemyIndex' = sel.enemyIndex
             /\ tileIndex' = sel.tileIndex
             /\ checkBoxRuning' = sel.checkBoxRuning
             /\ checkBoxWall' = sel.checkBoxWall
             /\ characters' = [characters EXCEPT ![ci] = ch.sprite]
             /\ enemies' = [enemies EXCEPT ![ei] = en.sprite]
             /\ drawn' = <<chQuad, enQuad>> \o GridPass(map, "ground")
                         \o GridPass(mapWall, "wall") \o <<ui>>
             /\ anim' = [anim EXCEPT
                           !.character[ci] =
                              ObserveRender(@, characters[ci], ch.sprite,
                                            <<ch.quad>>, frameCount),
                           !.enemy[ei] =
                              ObserveRender(@, enemy, en.sprite, <<en.quad>>,
                                            frameCount)]
             /\ UNCHANGED <<now, lastPoll>>
  /\ lastOp' = NoOp
  /\ UNCHANGED <<variant, wraps, queue, mouse, keys, minimized, fps, gameVars,
                 last, frameCount, done, map, mapWall, want, lastTick>>

\* ------------------------------------------------------------------ Init ----
\* The state after construction (game.cpp 178-197 and 200-229; gui.cpp
\* 99-149); overlays are the widget values the overlay may start with.
InitWith(overlays, queues) ==
  /\ variant \in {"game", "gui"}
  /\ now = 0 /\ wraps = 0 /\ queue \in queues /\ mouse = <<0, 0>> /\ keys = {}
  /\ minimized = FALSE
  /\ pc = "idle" /\ fps = [wraps |-> 0, ms |-> 0]
  /\ last_ = 0 /\ frameCount_ = 0 /\ done_ = FALSE
  /\ player_ = [x |-> 100 * 100, y |-> 100 * 100, radius |-> 0, angle |-> 0]
  /\ characters_ = LoadedCharacters /\ enemies_ = LoadedEnemies
  /\ map_ = <<>> /\ mapWall_ = <<>>
  /\ tileCursorPos_ = <<0, 0>> /\ showTileSelector_ = FALSE
  /\ gameGui_ \in overlays
  /\ last = 0 /\ frameCount = 0 /\ done = FALSE
  /\ characters = GuiCharacters /\ enemies = GuiEnemies
  /\ map = [i \in 0..(GridW - 1) |-> [j \in 0..(GridH - 1) |-> EMPTY]]
  /\ mapWall = [i \in 0..(GridW - 1) |-> [j \in 0..(GridH - 1) |-> EMPTY]]
  /\ characterIndex = 0 /\ enemyIndex = 0 /\ tileIndex = 0
  /\ checkBoxRuning = FALSE /\ checkBoxWall = FALSE
  /\ drawn = <<>> /\ lastPoll = "none"
  /\ lastTick = [wraps |-> 0, ms |-> 0] /\ lastOp = NoOp /\ want = {}
  /\ anim = IF variant = "game"
            THEN [character |-> [i \in 1..Len(LoadedCharacters) |-> NoRender],
                  enemy |-> [i \in 1..Len(LoadedEnemies) |-> NoRender]]
            ELSE [character |-> [i \in 1..Len(GuiCharacters) |-> NoRender],
                  enemy |-> [i \in 1..Len(GuiEnemies) |-> NoRender]]

\* ------------------------------------------- the editing session (Spec) ----
\* The user edits the map: left clicks at (40,40) and (40,330), right clicks
\* at (40,63), which lies in the cell of (40,40), and at (40,330), which
\* lies outside the dense variant's grid; each tick comes a whole step after
\* the last, and the overlay's tile and wall widgets change between ticks.
EditEvents ==
  {Click("LEFT", <<40, 40>>, FALSE), Click("LEFT", <<40, 330>>, FALSE),
   Click("RIGHT", <<40, 63>>, FALSE), Click("RIGHT", <<40, 330>>, FALSE)}
EditOverlays ==
  [editorMode : {TRUE}, wall : BOOLEAN, level : {FALSE}, tileIndex : 0..1,
   characterIndex : {0}, enemyIndex : {0}]
EditWidgets ==
  [characterIndex : {0}, enemyIndex : {0}, tileIndex : 0..1,
   checkBoxRuning : {FALSE}, checkBoxWall : BOOLEAN]
EditSteps == {100}

Init == InitWith(EditOverlays, {<<>>})

Next ==
  \/ \E event \in EditEvents : PushEvent(event)
  \/ \E d \in EditSteps : FrameBegin(d, 0)
  \/ ProcessEvent
  \/ \E overlay \in EditOverlays : FrameRender(overlay)
  \/ \E d \in EditSteps : GuiFrameBegin(d, 0)
  \/ GuiProcessEvent
  \/ \E sel \in EditWidgets : GuiFrameRender(sel)

Spec == Init /\ [][Next]_vars

\* --------------------------------------- one click anywhere (SpecSnap) ----
\* A left click at any raw point of the square 0..MaxRaw waits in the queue
\* when the loop starts; left clicks at (40,40) follow.
SnapQueues ==
  {<<Click("LEFT", <<x, y>>, FALSE)>> : x \in 0..MaxRaw, y \in 0..MaxRaw}
SnapOverlays ==
  [editorMode : {TRUE}, wall : BOOLEAN, level : {FALSE}, tileIndex : {0},
   characterIndex : {0}, enemyIndex : {0}]
SnapWidgets ==
  [characterIndex : {0}, enemyIndex : {0}, tileIndex : {0},
   checkBoxRuning : {FALSE}, checkBoxWall : BOOLEAN]

SnapEvents == {Click("LEFT", <<40, 40>>, FALSE)}

InitSnap == InitWith(SnapOverlays, SnapQueues)

NextSnap ==
  \/ \E event \in SnapEvents : PushEvent(event)
  \/ \E d \in EditSteps : FrameBegin(d, 0)
  \/ ProcessEvent
  \/ \E overlay \in SnapOverlays : FrameRender(overlay)
  \/ \E d \in EditSteps : GuiFrameBegin(d, 0)
  \/ GuiProcessEvent
  \/ \E sel \in SnapWidgets : GuiFrameRender(sel)

SpecSnap == InitSnap /\ [][NextSnap]_vars

\* ------------------------------------- walking between walls (SpecDraw) ----
\* The sparse variant: the user places tiles at stored y 32 (click (40,40))
\* and 112 (clicks (40,200) and (80,200)) while the up key moves the
\* player, who starts at y 100, by 6 pixels a tick of 100 ms.
DrawEvents ==
  {Click("LEFT", <<40, 40>>, FALSE), Click("LEFT", <<40, 200>>, FALSE),
   Click("LEFT", <<80, 200>>, FALSE)}
DrawKeys == {{}, {"UP"}}
DrawOverlays ==
  [editorMode : {TRUE}, wall : BOOLEAN, level : {FALSE}, tileIndex : {1},
   characterIndex : {0}, enemyIndex : {0}]

InitDraw == InitWith(DrawOverlays, {<<>>}) /\ variant = "game"

NextDraw ==
  \/ \E event \in DrawEvents : PushEvent(event)
  \/ \E held \in DrawKeys : SetKeys(held)
  \/ \E d \in EditSteps : FrameBegin(d, 0)
  \/ ProcessEvent
  \/ \E overlay \in DrawOverlays : FrameRender(overlay)

SpecDraw == InitDraw /\ [][NextDraw]_vars

\* ------------------------------------------ ten ticks of play (SpecAnim) ----
\* Ticks come 33 ms apart, ten of them up to MaxNow; the user presses A and
\* switches the selected character.
AnimEvents == {Key("KEY_DOWN", "A", FALSE)}
AnimOverlays ==
  [editorMode : {FALSE}, wall : {FALSE}, level : {FALSE}, tileIndex : {0},
   characterIndex : 0..1, enemyIndex : {0}]
AnimWidgets ==
  [characterIndex : 0..1, enemyIndex : {0}, tileIndex : {0},
   checkBoxRuning : {FALSE}, checkBoxWall : {FALSE}]
AnimSteps == {minFrameDuration}

InitAnim == InitWith(AnimOverlays, {<<>>})

NextAnim ==
  \/ \E event \in AnimEvents : PushEvent(event)
  \/ \E d \in AnimSteps : FrameBegin(d, 0)
  \/ ProcessEvent
  \/ \E overlay \in AnimOverlays : FrameRender(overlay)
  \/ \E d \in AnimSteps : GuiFrameBegin(d, 0)
  \/ GuiProcessEvent
  \/ \E sel \in AnimWidgets : GuiFrameRender(sel)

SpecAnim == InitAnim /\ [][NextAnim]_vars

\* ------------------------------------------- hitting and running (SpecHit) ----
\* Three ticks 100 ms apart; the user presses A, holds or releases the right
\* arrow (the dense variant gets its key events) and switches the selected
\* character.
HitEvents ==
  {Key("KEY_DOWN", "A", FALSE), Key("KEY_DOWN", "RIGHT", FALSE),
   Key("KEY_UP", "RIGHT", FALSE)}
HitKeys == {{}, {"RIGHT"}}

InitHit == InitWith(AnimOverlays, {<<>>})

NextHit ==
  \/ \E event \in HitEvents : PushEvent(event)
  \/ \E held \in HitKeys : SetKeys(held)
  \/ \E d \in EditSteps : FrameBegin(d, 0)
  \/ ProcessEvent
  \/ \E overlay \in AnimOverlays : FrameRender(overlay)
  \/ \E d \in EditSteps : GuiFrameBegin(d, 0)
  \/ GuiProcessEvent
  \/ \E sel \in AnimWidgets : GuiFrameRender(sel)

SpecHit == InitHit /\ [][NextHit]_vars

\* ------------------------------------------------ the paced loop (SpecPace) ----
\* frame() is polled 11 or 33 ms after its last poll, or, once, 2^32 ms
\* later than that (the program has been running, or has been stopped, for
\* 49.7 days); the user clicks and asks to quit.  No arrow key is held.
PaceEvents ==
  {Click("LEFT", <<40, 40>>, FALSE), Quit(FALSE)}
PaceOverlays ==
  [editorMode : {TRUE}, wall : {FALSE}, level : {FALSE}, tileIndex : {0},
   characterIndex : {0}, enemyIndex : {0}]
PaceWidgets ==
  [characterIndex : {0}, enemyIndex : {0}, tileIndex : {0},
   checkBoxRuning : {FALSE}, checkBoxWall : {FALSE}]
PaceSteps == {11, minFrameDuration}

InitPace == InitWith(PaceOverlays, {<<>>})

NextPace ==
  \/ \E event \in PaceEvents : PushEvent(event)
  \/ \E d \in PaceSteps, w \in 0..MaxWraps : FrameBegin(d, w)
  \/ ProcessEvent
  \/ \E overlay \in PaceOverlays : FrameRender(overlay)
  \/ \E d \in PaceSteps, w \in 0..MaxWraps : GuiFrameBegin(d, w)
  \/ GuiProcessEvent
  \/ \E sel \in PaceWidgets : GuiFrameRender(sel)

SpecPace == InitPace /\ [][NextPace]_vars

\* ======================================================== the claims ====
\* How each variant stores the tile of a cell of the 32 pixel grid: the
\* sparse map at half scale, anchored at the cell's lower edge; the dense map
\* at the cell's column and row.
SparsePoint(cell) == [x |-> cell[1] \div 2, y |-> (cell[2] + 32) \div 2]
SparseLayer(wall) == IF wall THEN mapWall_ ELSE map_
SparseAt(wall, cell) ==
  {i \in 1..Len(SparseLayer(wall)) :
     /\ SparseLayer(wall)[i].x = SparsePoint(cell).x
     /\ SparseLayer(wall)[i].y = SparsePoint(cell).y}
DenseLayer(wall) == IF wall THEN mapWall ELSE map
CellInGrid(cell) == cell[1] \div 32 < GridW /\ cell[2] \div 32 < GridH
\* The catalog index the dense layer holds for a cell (EMPTY outside the grid,
\* where it holds nothing).
DenseAt(wall, cell) ==
  IF CellInGrid(cell) THEN DenseLayer(wall)[cell[1] \div 32][cell[2] \div 32]
  ELSE EMPTY

\* The layer holds exactly one entry for the cell, and it references def.
HoldsExactly(wall, cell, def) ==
  IF variant = "game"
  THEN /\ Cardinality(SparseAt(wall, cell)) = 1
       /\ \A i \in SparseAt(wall, cell) : SparseLayer(wall)[i].def = def
  ELSE DenseAt(wall, cell) = def

\* C1 as stated: after any sequence of left clicks on one cell and layer, the
\* layer holds exactly one entry there, referencing the tile selected at the
\* latest of them.  (Fails in the dense variant for a cell outside the grid.)
C1_LastWriteWins_Original ==
  \A r \in want : HoldsExactly(r.wall, r.cell, r.def)

\* C1 (amended): ... in the sparse variant for every cell, in the dense
\* variant for every cell inside the 15 x 10 grid.
C1_LastWriteWins ==
  \A r \in want :
    (variant = "gui" => CellInGrid(r.cell)) => HoldsExactly(r.wall, r.cell, r.def)

\* C1's case: a left click has just replaced a tile of another catalog entry.
C1_Witness ==
  /\ variant = "game"
  /\ lastOp.kind = "replace"
  /\ lastOp.old # lastOp.def
  /\ HoldsExactly(lastOp.wall, Cell(lastOp.x, lastOp.y), lastOp.def)
  /\ Len(SparseLayer(lastOp.wall)) = 2

\* C2: in every reachable state each layer of the sparse map holds at most
\* one tile per cell coordinate.
C2_OneTilePerCell ==
  variant = "game" =>
    \A wall \in BOOLEAN :
      \A i, j \in 1..Len(SparseLayer(wall)) :
        (SparseLayer(wall)[i].x = SparseLayer(wall)[j].x
         /\ SparseLayer(wall)[i].y = SparseLayer(wall)[j].y) => i = j

\* C2's case: both layers hold tiles and a click has just replaced one.
C2_Witness ==
  /\ variant = "game"
  /\ lastOp.kind = "replace"
  /\ map_ # <<>>
  /\ mapWall_ # <<>>

\* The head of the queue is a right click the editor handles, on a cell
\* that holds no tile on the selected layer.
RemoveOnEmptyCell ==
  /\ pc = "events"
  /\ queue # <<>>
  /\ IsRightDown(Head(queue))
  /\ IF variant = "game"
     THEN /\ ~Head(queue).claimed
          /\ gameGui_.editorMode
          /\ SparseAt(gameGui_.wall, Cell(Head(queue).x, Head(queue).y)) = {}
     ELSE DenseAt(checkBoxWall, Cell(Head(queue).x, Head(queue).y)) = EMPTY

\* C3: a right click on a cell that holds no tile on the selected layer
\* changes neither layer (contents and order) and raises nothing: done stays
\* as it was and the thread goes on with the tick.
C3_RemoveOnEmptyIsNoOp ==
  [][RemoveOnEmptyCell =>
       /\ map_' = map_ /\ mapWall_' = mapWall_
       /\ map' = map /\ mapWall' = mapWall
       /\ done_' = done_ /\ done' = done
       /\ pc' \in {"events", "render"}]_vars

\* C3's case: a right click found no tile on a layer that holds another one.
C3_Witness ==
  /\ variant = "game"
  /\ lastOp.kind = "miss"
  /\ SparseLayer(lastOp.wall) # <<>>

\* C3's case on the empty layer.
C3_WitnessEmpty ==
  /\ lastOp.kind = "miss"
  /\ IF variant = "game" THEN map_ = <<>> /\ mapWall_ = <<>>
     ELSE \A i \in 0..(GridW - 1), j \in 0..(GridH - 1) :
            map[i][j] = EMPTY /\ mapWall[i][j] = EMPTY

\* The wall quads of a draw list, in order.
WallQuads(quads) == SelectSeq(quads, LAMBDA q : q.k = "wall")

\* C4: in every rendered frame of the sparse variant the wall tiles are drawn
\* in non-decreasing order of y.
C4_WallsAscending ==
  variant = "game" =>
    \A i \in 1..(Len(WallQuads(drawn)) - 1) :
      WallQuads(drawn)[i].y <= WallQuads(drawn)[i + 1].y

\* C4's case: a frame drew two wall tiles of different y, after a click that
\* found a tile (a replace or a remove) in an earlier tick.
C4_Witness ==
  /\ variant = "game"
  /\ pc = "idle"
  /\ frameCount_ = 3
  /\ Len(WallQuads(drawn)) = 2
  /\ WallQuads(drawn)[1].y < WallQuads(drawn)[2].y
  /\ WallQuads(drawn)[1].def # WallQuads(drawn)[2].def

\* A left click has just been handled.
Placed == lastOp.kind \in {"place", "replace"}

\* C8 as stated: the entry a place creates stands at the floor-snapped cell
\* (x - x mod 32, y - y mod 32).  (Fails in the sparse variant.)
C8_SnappedCell_Original ==
  (variant = "game" /\ Placed) =>
    LET layer == SparseLayer(lastOp.wall)
    IN Cardinality({i \in 1..Len(layer) :
                      <<layer[i].x, layer[i].y>> = Cell(lastOp.x, lastOp.y)}) = 1

\* C8 (amended): a place at raw click (x, y) creates the entry of the cell
\* (x - x mod 32, y - y mod 32); the sparse variant stores it at
\* ((x - x mod 32) / 2, (y - y mod 32 + 32) / 2), the dense variant, for a cell
\* inside the grid, at column x div 32 and row y div 32 (drawn at the cell's
\* pixel).  A click at (40,40) on an empty ground layer yields exactly one
\* ground entry, stored at (16,32) in the sparse variant.
C8_SnappedCell ==
  Placed =>
    IF variant = "game"
    THEN LET layer == SparseLayer(lastOp.wall)
             n == Len(layer)
         IN /\ layer[n].x = (lastOp.x - (lastOp.x % 32)) \div 2
            /\ layer[n].y = (lastOp.y - (lastOp.y % 32) + 32) \div 2
            /\ layer[n].def = lastOp.def
            /\ \A i \in 1..(n - 1) : <<layer[i].x, layer[i].y>> # <<layer[n].x, layer[n].y>>
            /\ (lastOp.x = 40 /\ lastOp.y = 40 /\ ~lastOp.wall
                /\ {r \in want : ~r.wall} = {[wall |-> FALSE, cell |-> <<32, 32>>,
                                              def |-> lastOp.def]})
               => (n = 1 /\ layer[1].x = 16 /\ layer[1].y = 32)
    ELSE (lastOp.x \div 32 < GridW /\ lastOp.y \div 32 < GridH) =>
           /\ DenseLayer(lastOp.wall)[lastOp.x \div 32][lastOp.y \div 32] = lastOp.def
           /\ <<(lastOp.x \div 32) * 32, (lastOp.y \div 32) * 32>> = Cell(lastOp.x, lastOp.y)

\* C8's case: the click at (40,40) on the empty ground layer.
C8_Witness ==
  /\ variant = "game"
  /\ lastOp.kind = "place" /\ lastOp.x = 40 /\ lastOp.y = 40 /\ ~lastOp.wall
  /\ Len(map_) = 1 /\ map_[1].x = 16 /\ map_[1].y = 32

\* The layer holds no tile at all.
LayerEmpty(wall) ==
  IF variant = "game" THEN SparseLayer(wall) = <<>>
  ELSE \A i \in 0..(GridW - 1), j \in 0..(GridH - 1) : DenseLayer(wall)[i][j] = EMPTY

\* C9: after a right click the selected layer holds no tile at the click's
\* cell, wherever in the cell the left click that placed it fell; and once
\* every place on a layer has been answered by a right click on its cell
\* (in particular: a left click at p on the empty layer, then a right click
\* at p), the layer is empty again.
C9_PlaceRemoveRoundTrip ==
  lastOp.kind \in {"remove", "miss"} =>
    /\ IF variant = "game"
       THEN SparseAt(lastOp.wall, Cell(lastOp.x, lastOp.y)) = {}
       ELSE DenseAt(lastOp.wall, Cell(lastOp.x, lastOp.y)) = EMPTY
    /\ {r \in want : r.wall = lastOp.wall} = {} => LayerEmpty(lastOp.wall)

\* C9's case: the right click at (40,63) has removed the tile the left click
\* at (40,40) placed, and the layer is empty again.
C9_Witness ==
  /\ variant = "game"
  /\ lastOp.kind = "remove" /\ lastOp.x = 40 /\ lastOp.y = 63
  /\ LayerEmpty(lastOp.wall)

\* C9's case at one raw point, in the dense variant.
C9_WitnessSamePoint ==
  /\ lastOp.kind = "remove" /\ lastOp.x = 40 /\ lastOp.y = 330
  /\ LayerEmpty(lastOp.wall)

\* The places of the quads of kind k in the latest frame's draw list.
QuadsOf(k) == {i \in 1..Len(drawn) : drawn[i].k = k}

\* The wall quads of the latest frame that are in front of the character
\* drawn at place c: their y is strictly greater than the character's.
WallsInFront(c) == {i \in QuadsOf("wall") : drawn[i].y * 100 > drawn[c].y}

\* C5: every rendered frame of the sparse variant draws the character exactly
\* once: immediately before the first wall tile of strictly greater y, or,
\* when no wall tile has a greater y, after all wall tiles.
C5_CharacterDepthSlot ==
  (variant = "game" /\ drawn # <<>>) =>
    /\ Cardinality(QuadsOf("character")) = 1
    /\ \A c \in QuadsOf("character") :
         IF WallsInFront(c) = {}
         THEN /\ \A i \in QuadsOf("wall") : i < c
              /\ \A i \in QuadsOf("ground") : i < c
         ELSE /\ c + 1 \in WallsInFront(c)
              /\ \A i \in WallsInFront(c) : c < i

\* C5's case: the character stands level with one wall and in front of
\* another, and is drawn after both.
C5_Witness ==
  /\ variant = "game"
  /\ Cardinality(QuadsOf("wall")) >= 2
  /\ \E c \in QuadsOf("character") :
       /\ \E i \in QuadsOf("wall") : drawn[i].y * 100 = drawn[c].y
       /\ \E i \in QuadsOf("wall") : drawn[i].y * 100 < drawn[c].y
       /\ WallsInFront(c) = {}

\* C5's case: the character is drawn between two walls.
C5_WitnessBetween ==
  /\ variant = "game"
  /\ \E c \in QuadsOf("character") :
       /\ c - 1 \in QuadsOf("wall")
       /\ c + 1 \in QuadsOf("wall")

\* The character sprites of the running variant and its frame counter.
Sprites == IF variant = "game" THEN characters_ ELSE characters
Ticks == IF variant = "game" THEN frameCount_ ELSE frameCount

\* C6: for a sprite with canHit, a render shows the Hit cell exactly when
\* setHit was called since the sprite's previous render, and the render
\* clears the flag (the flag is set only while a setHit waits for its
\* render); so two consecutive renders both show Hit only if setHit was
\* called between them, and a render that follows a Hit render without a new
\* setHit shows the Idle or the Running cell.
C6_HitIsOneShot ==
  \A i \in 1..Len(Sprites) :
    Sprites[i].canHit =>
      LET a == anim.character[i]
      IN /\ Sprites[i].hit <=> a.hitSince
         /\ a.renders > 0 =>
              /\ a.mode = "hit" <=> a.hitBetween
              /\ (a.mode = "hit" /\ a.prev = "hit") => a.hitBetween
              /\ (a.prev = "hit" /\ ~a.hitBetween) => a.mode \in {"idle", "run"}

\* C6's case: a sprite showed Hit, then, with no new setHit, the Running
\* cell, and its flag is clear.
C6_Witness ==
  \E i \in 1..Len(Sprites) :
    /\ Sprites[i].canHit
    /\ anim.character[i].prev = "hit"
    /\ anim.character[i].mode = "run"
    /\ ~anim.character[i].hitBetween
    /\ ~Sprites[i].hit

\* C6's case: two consecutive renders of a sprite show Hit, setHit having
\* been called between them.
C6_WitnessTwice ==
  \E i \in 1..Len(Sprites) :
    /\ anim.character[i].prev = "hit"
    /\ anim.character[i].mode = "hit"
    /\ anim.character[i].hitBetween

\* C7: a sprite's frame index changes only in a render: by +1 modulo 4 when
\* the frame count handed to the render is even, not at all when it is odd;
\* a sprite rendered once in each of n ticks has advanced n div 2 times
\* (5 times in 10 ticks).
C7_IndexAdvancesOnEvenCounts ==
  \A i \in 1..Len(Sprites) :
    LET a == anim.character[i]
    IN /\ Sprites[i].index = a.after
       /\ Sprites[i].index \in 0..3
       /\ a.renders > 0 =>
            a.after = IF a.count % 2 = 0 THEN (a.before + 1) % 4 ELSE a.before
       /\ a.renders = Ticks => a.advances = Ticks \div 2
       /\ (a.renders = 10 /\ Ticks = 10) => a.advances = 5

\* C7's case: ten ticks, the sprite rendered in each; its index has gone
\* 0,1,2,3,0,1.
C7_Witness ==
  /\ Ticks = 10
  /\ \E i \in 1..Len(Sprites) :
       /\ anim.character[i].renders = 10
       /\ anim.character[i].advances = 5
       /\ Sprites[i].index = 1

\* This step is a poll of frame(): the thread is outside frame() and the
\* clock is read anew.
Poll == pc = "idle" /\ <<wraps', now'>> # <<wraps, now>>

\* The time from the latest accepted tick to this poll is below the minimum
\* frame interval.
PollTooEarly ==
  /\ Poll
  /\ wraps' = lastTick.wraps
  /\ now' - lastTick.ms < minFrameDuration

\* The poll does no work: timestamp, frame counter, layers, player,
\* sprites and done flag are as before, no event is consumed, nothing is
\* drawn and the thread is back outside frame().
NoWork ==
  /\ UNCHANGED <<last_, frameCount_, map_, mapWall_, player_, characters_,
                 enemies_, done_>>
  /\ UNCHANGED <<last, frameCount, map, mapWall, characters, enemies, done>>
  /\ UNCHANGED <<queue, drawn>>
  /\ pc' = "idle"

\* C10: a poll of frame() that comes less than 1000/30 = 33 ms after the
\* latest accepted tick does no work.  (Fails once the clock has passed
\* 2^32 ms: the stored timestamp keeps 32 bits of the 64-bit clock.)
C10_EarlyPollDoesNoWork == [][PollTooEarly => NoWork]_vars

\* The part of C10 the code keeps: while the clock is below 2^32 ms an
\* early poll does no work.
C10_EarlyPollBelowWrap == [][(PollTooEarly /\ wraps' = 0) => NoWork]_vars

\* C10's case: a poll was skipped while an event waited, after at least one
\* tick was accepted.
C10_Witness ==
  /\ lastPoll = "skipped"
  /\ queue # <<>>
  /\ Ticks > 0
  /\ now - lastTick.ms < minFrameDuration

\* C10's failing case: the clock has passed 2^32 ms; a tick was accepted at
\* 2^32 + 11 ms and the next one 11 ms later, at 2^32 + 22 ms (the elapsed
\* time the code computed is 2^32 + 11 ms).
C10_WitnessAfterWrap ==
  /\ wraps = 1 /\ now = 22
  /\ Ticks = 2
  /\ lastPoll = "accepted"
  /\ lastTick = [wraps |-> 1, ms |-> 22]
  /\ fps = [wraps |-> 1, ms |-> 11]

\* ------------------------------------- the minimized window (SpecMin) ----
\* The user minimizes and restores the window between ticks 100 ms apart,
\* clicks at (40,40) and presses A.
MinEvents == {Click("LEFT", <<40, 40>>, FALSE), Key("KEY_DOWN", "A", FALSE)}
MinFlags == BOOLEAN

InitMin == InitWith(PaceOverlays, {<<>>})

NextMin ==
  \/ \E event \in MinEvents : PushEvent(event)
  \/ \E flag \in MinFlags : SetMinimized(flag)
  \/ \E d \in EditSteps : FrameBegin(d, 0)
  \/ ProcessEvent
  \/ \E overlay \in PaceOverlays : FrameRender(overlay)
  \/ \E d \in EditSteps : GuiFrameBegin(d, 0)
  \/ GuiProcessEvent
  \/ \E sel \in PaceWidgets : GuiFrameRender(sel)

SpecMin == InitMin /\ [][NextMin]_vars

\* A step that polls no event, issues no draw call and leaves the layers,
\* the sprites and the player as they were.
Paused ==
  /\ Len(queue') >= Len(queue)
  /\ drawn' = drawn \/ drawn' = <<>>
  /\ UNCHANGED <<map_, mapWall_, characters_, enemies_, player_>>
  /\ UNCHANGED <<map, mapWall, characters, enemies>>

\* C11: while the window is minimized a tick is paused: no step of it polls
\* an event, draws, or changes a layer, a sprite or the player; and a tick
\* accepted once the window is restored runs the event loop again.  (Fails
\* in the dense variant, whose frame() runs the event loop before it tests
\* the window.)
C11_MinimizedTickIsPaused ==
  [][/\ minimized => Paused
     /\ (~minimized /\ Poll /\ lastPoll' = "accepted") => pc' = "events"]_vars

\* The part of C11 the sparse variant keeps.
C11_MinimizedTickIsPausedSparse ==
  [][variant = "game" =>
       /\ minimized => Paused
       /\ (~minimized /\ Poll /\ lastPoll' = "accepted") => pc' = "events"]_vars

\* C11's case in the sparse variant: a tick was accepted while the window
\* was minimized, a click waiting; the click is still waiting and nothing is
\* drawn.
C11_Witness ==
  /\ variant = "game"
  /\ minimized
  /\ lastPoll = "minimized"
  /\ queue # <<>>
  /\ drawn = <<>>
  /\ now = 210

\* C11's failing case: the dense variant has placed a tile during a tick
\* with the window minimized.
C11_WitnessDenseEdited ==
  /\ variant = "gui"
  /\ minimized
  /\ pc = "events"
  /\ lastOp.kind = "place"
  /\ DenseAt(FALSE, <<32, 32>>) = 0

\* ------------------------------------------ routing events (SpecRoute) ----
\* Edit and Play mode; the user clicks at (40,40), presses A, asks to quit
\* and closes this window or another one, the pointer over a control of the
\* overlay (the event is claimed) or not; ticks come 100 ms apart.
RouteEvents ==
  {Click("LEFT", <<40, 40>>, FALSE), Click("LEFT", <<40, 40>>, TRUE),
   Click("RIGHT", <<40, 40>>, FALSE),
   Key("KEY_DOWN", "A", FALSE), Key("KEY_DOWN", "A", TRUE),
   Quit(FALSE), Quit(TRUE), Close(TRUE, FALSE), Close(FALSE, FALSE)}
RouteOverlays ==
  [editorMode : BOOLEAN, wall : BOOLEAN, level : {FALSE}, tileIndex : {0},
   characterIndex : {0}, enemyIndex : {0}]
RouteWidgets ==
  [characterIndex : {0}, enemyIndex : {0}, tileIndex : {0},
   checkBoxRuning : {FALSE}, checkBoxWall : BOOLEAN]

InitRoute == InitWith(RouteOverlays, {<<>>})

NextRoute ==
  \/ \E event \in RouteEvents : PushEvent(event)
  \/ \E d \in EditSteps : FrameBegin(d, 0)
  \/ ProcessEvent
  \/ \E overlay \in RouteOverlays : FrameRender(overlay)
  \/ \E d \in EditSteps : GuiFrameBegin(d, 0)
  \/ GuiProcessEvent
  \/ \E sel \in RouteWidgets : GuiFrameRender(sel)

SpecRoute == InitRoute /\ [][NextRoute]_vars

\* This step polls the event at the head of the queue.
Polled == pc = "events" /\ queue # <<>> /\ queue' = Tail(queue)

\* The event is a Quit, or a close request for the program's own window.
AsksToQuit(event) ==
  event.type = "QUIT" \/ (event.type = "WINDOW_CLOSE_REQUESTED" /\ event.own)

IsDone == IF variant = "game" THEN done_ ELSE done

\* C12: every Quit event and every close request for the program's own
\* window that a tick polls sets the done flag, in Edit and in Play mode, and
\* no step clears the flag.  (Fails in the sparse variant for an event the
\* overlay claims.)
C12_QuitSetsDone ==
  [][/\ (Polled /\ AsksToQuit(Head(queue))) => IsDone'
     /\ IsDone => IsDone']_vars

\* The part of C12 the code keeps: ... every such event the overlay does not
\* claim; the dense variant asks the overlay nothing.
C12_UnclaimedQuitSetsDone ==
  [][/\ (Polled /\ AsksToQuit(Head(queue))
          /\ (variant = "game" => ~Head(queue).claimed)) => IsDone'
     /\ IsDone => IsDone']_vars

\* C12's case: the program is done in Play mode, after a tick that polled
\* two events.
C12_Witness ==
  /\ variant = "game"
  /\ ~gameGui_.editorMode
  /\ done_
  /\ pc = "idle"
  /\ queue = <<>>
  /\ frameCount_ = 2

\* C12's failing case: the sparse variant, not done, is about to poll a Quit
\* the overlay claims, in Play mode.
C12_WitnessClaimedQuit ==
  /\ variant = "game"
  /\ ~gameGui_.editorMode
  /\ ~done_
  /\ pc = "events"
  /\ queue = <<Quit(TRUE)>>

\* This step of the sparse variant polls an event the overlay claims.
ClaimedPolled == variant = "game" /\ Polled /\ Head(queue).claimed

\* C13: handling an event the overlay claims hides the grid cursor and
\* changes neither layer, nor the cursor position, nor any character's hit
\* flag, whatever the event's type and the mode.
C13_ClaimedEventIsConsumed ==
  [][ClaimedPolled =>
       /\ showTileSelector_' = FALSE
       /\ map_' = map_ /\ mapWall_' = mapWall_
       /\ tileCursorPos_' = tileCursorPos_
       /\ \A i \in 1..Len(characters_) : characters_'[i].hit = characters_[i].hit]_vars

\* C13's case: in Edit mode an unclaimed click has placed a tile and put the
\* cursor at its cell in an earlier tick; a claimed event has since hidden
\* the cursor, the tile and the cursor position are as they were, and no
\* character is hit.
C13_Witness ==
  /\ variant = "game"
  /\ gameGui_.editorMode
  /\ pc = "events"
  /\ queue = <<>>
  /\ frameCount_ = 2
  /\ ~showTileSelector_
  /\ tileCursorPos_ = <<32, 32>>
  /\ Len(map_) = 1
  /\ \A i \in 1..Len(characters_) : ~characters_[i].hit

\* The tiles of a sparse layer, whatever their order (frame() sorts the
\* layers), and the places of those standing at a point.
TileSet(layer) ==
  {[def |-> layer[i].def, x |-> layer[i].x, y |-> layer[i].y] : i \in 1..Len(layer)}
TilesAt(layer, point) ==
  {i \in 1..Len(layer) : layer[i].x = point.x /\ layer[i].y = point.y}

\* This step changes what a layer holds.
LayersChange ==
  IF variant = "game"
  THEN TileSet(map_') # TileSet(map_) \/ TileSet(mapWall_') # TileSet(mapWall_)
  ELSE map' # map \/ mapWall' # mapWall

\* This step polls a pointer click the overlay does not claim, in Edit mode
\* (the dense variant has no other mode).
EditClickPolled ==
  /\ Polled
  /\ Head(queue).type = "MOUSE_BUTTON_DOWN"
  /\ ~Head(queue).claimed
  /\ variant = "game" => gameGui_.editorMode

\* After this step the layer the wall toggle chooses holds, at the cell of
\* the click at the head of the queue, exactly the selected tile (def) or no
\* tile (def = EMPTY); the other layer is as it was.
ClickEffect(def) ==
  LET cell == Cell(Head(queue).x, Head(queue).y)
      point == SparsePoint(cell)
  IN IF variant = "game"
     THEN /\ IF gameGui_.wall THEN map_' = map_ ELSE mapWall_' = mapWall_
          /\ LET after == IF gameGui_.wall THEN mapWall_' ELSE map_'
             IN IF def = EMPTY THEN TilesAt(after, point) = {}
                ELSE /\ Cardinality(TilesAt(after, point)) = 1
                     /\ \A i \in TilesAt(after, point) : after[i].def = def
     ELSE /\ IF checkBoxWall THEN map' = map ELSE mapWall' = mapWall
          /\ LET after == IF checkBoxWall THEN mapWall' ELSE map'
             IN after[cell[1] \div 32][cell[2] \div 32] = def

\* C14: only a pointer click polled in Edit mode and not claimed by the
\* overlay changes what a layer holds; such a left click places the selected
\* tile and such a right click removes the tile at the cell, on the layer
\* the wall toggle chooses; in Play mode no event changes a layer.  (Fails
\* in the dense variant, which edits the map on claimed clicks too.)
C14_OnlyEditClicksChangeLayers ==
  [][/\ LayersChange => EditClickPolled
     /\ (EditClickPolled /\ IsLeftDown(Head(queue))) =>
          ClickEffect(IF variant = "game" THEN gameGui_.tileIndex ELSE tileIndex)
     /\ (EditClickPolled /\ IsRightDown(Head(queue))) => ClickEffect(EMPTY)]_vars

\* The part of C14 the sparse variant keeps.
C14_OnlyEditClicksChangeLayersSparse ==
  [][variant = "game" =>
       /\ LayersChange => EditClickPolled
       /\ (EditClickPolled /\ IsLeftDown(Head(queue))) =>
            ClickEffect(gameGui_.tileIndex)
       /\ (EditClickPolled /\ IsRightDown(Head(queue))) => ClickEffect(EMPTY)]_vars

\* C14's case in the sparse variant: Play mode, two ticks after a tile was
\* placed on the wall layer in Edit mode; the events polled since have left
\* it there.
C14_Witness ==
  /\ variant = "game"
  /\ ~gameGui_.editorMode
  /\ frameCount_ = 3
  /\ pc = "events"
  /\ queue = <<>>
  /\ showTileSelector_
  /\ Len(mapWall_) = 1
  /\ map_ = <<>>

\* C14's failing case: the dense variant is about to poll a left click the
\* overlay claims, the ground layer empty at the click's cell.
C14_WitnessClaimedClick ==
  /\ variant = "gui"
  /\ pc = "events"
  /\ queue = <<Click("LEFT", <<40, 40>>, TRUE)>>
  /\ ~checkBoxWall
  /\ DenseAt(FALSE, <<32, 32>>) = EMPTY

\* This step ends the input phase of a tick: the thread leaves the event
\* loop.
InputPhaseEnds == pc = "events" /\ pc' # "events"

\* C15: when the input phase of an accepted tick ends, no event is pending,
\* in Edit and Play mode, whatever events were queued.  (Fails in Edit mode
\* of the sparse variant: the event loop is left after the first click.)
C15_TickDrainsQueue == [][InputPhaseEnds => queue' = <<>>]_vars

\* The part of C15 the code keeps: Play mode of the sparse variant, and the
\* dense variant.
C15_TickDrainsQueueOutsideEditor ==
  [][(InputPhaseEnds /\ ~(variant = "game" /\ gameGui_.editorMode)) =>
       queue' = <<>>]_vars

\* C15's case: one tick of Play mode has routed an A key and a Quit: the
\* selected character was drawn hit and the program is done.
C15_Witness ==
  /\ variant = "game"
  /\ ~gameGui_.editorMode
  /\ frameCount_ = 1
  /\ pc = "idle"
  /\ queue = <<>>
  /\ done_
  /\ anim.character[1].mode = "hit"

\* C15's failing case: Edit mode, the first tick has handled a click and is
\* past the event loop; the Quit queued behind the click is still pending
\* and the program is not done.
C15_WitnessLeftPending ==
  /\ variant = "game"
  /\ gameGui_.editorMode
  /\ frameCount_ = 1
  /\ pc = "render"
  /\ lastOp.kind = "place"
  /\ queue = <<Quit(FALSE)>>
  /\ ~done_

\* ------------------------------------------ walking about (SpecWalk) ----
\* The sparse variant, no event queued: between ticks 100 ms apart the user
\* holds any of the four arrow keys, or none.
WalkKeys == SUBSET {"UP", "DOWN", "LEFT", "RIGHT"}

InitWalk == InitWith(PaceOverlays, {<<>>}) /\ variant = "game"

NextWalk ==
  \/ \E held \in WalkKeys : SetKeys(held)
  \/ \E d \in EditSteps : FrameBegin(d, 0)
  \/ \E overlay \in PaceOverlays : FrameRender(overlay)

SpecWalk == InitWalk /\ [][NextWalk]_vars

\* This step is the rest of an accepted tick of the sparse variant, from
\* checkKeys() on.
KeysChecked == variant = "game" /\ pc \in {"events", "render"} /\ pc' = "idle"

\* C16: a tick that finds none of the four arrow keys held leaves the
\* player's radius (the speed) 0 and the player where it was, whatever
\* speed and angle earlier ticks set.
C16_NoCoasting ==
  [][(KeysChecked /\ keys \cap {"UP", "DOWN", "LEFT", "RIGHT"} = {}) =>
       /\ player_'.radius = 0
       /\ player_'.x = player_.x
       /\ player_'.y = player_.y]_vars

\* C16's case: the player walked down and left for two ticks, then a tick
\* found no key held: the radius is 0, the angle still 225 degrees.
C16_Witness ==
  /\ pc = "idle"
  /\ frameCount_ = 3
  /\ keys = {}
  /\ player_.radius = 0
  /\ player_.angle = 225
  /\ player_.x = 100 * 100 - 2 * 424
  /\ player_.y = 100 * 100 - 2 * 424

\* ------------------------------------- one sprite on its own (SpecRect) ----
\* class CharacterSprite (sprite.cpp) used on its own: `variant` is
\* "sprite", the object is characters[1], built with any two capability
\* flags; its setters and render are called in any order, render with an
\* even or an odd frame count.  drawn holds the quad of the latest render,
\* frameCount the count it got, lastPoll the member called last.
SpriteFlags == BOOLEAN
SpriteCounts == 0..1

spriteRest ==
  <<variant, envVars, pc, fps, gameVars, last, done, enemies, map, mapWall,
    characterIndex, enemyIndex, tileIndex, checkBoxRuning, checkBoxWall,
    lastTick, lastOp, want, anim>>

InitRect ==
  /\ variant = "sprite"
  /\ now = 0 /\ wraps = 0 /\ queue = <<>> /\ mouse = <<0, 0>> /\ keys = {}
  /\ minimized = FALSE
  /\ pc = "idle" /\ fps = [wraps |-> 0, ms |-> 0]
  /\ last_ = 0 /\ frameCount_ = 0 /\ done_ = FALSE
  /\ player_ = [x |-> 0, y |-> 0, radius |-> 0, angle |-> 0]
  /\ characters_ = <<>> /\ enemies_ = <<>>
  /\ map_ = <<>> /\ mapWall_ = <<>>
  /\ tileCursorPos_ = <<0, 0>> /\ showTileSelector_ = FALSE
  /\ gameGui_ \in PaceOverlays
  /\ last = 0 /\ frameCount = 0 /\ done = FALSE
  /\ \E canRun \in SpriteFlags, canHit \in SpriteFlags :
       characters = <<NewSprite("character", canRun, canHit)>>
  /\ enemies = <<>>
  /\ map = <<>> /\ mapWall = <<>>
  /\ characterIndex = 0 /\ enemyIndex = 0 /\ tileIndex = 0
  /\ checkBoxRuning = FALSE /\ checkBoxWall = FALSE
  /\ drawn = <<>> /\ lastPoll = "none"
  /\ lastTick = [wraps |-> 0, ms |-> 0] /\ lastOp = NoOp /\ want = {}
  /\ anim = [character |-> <<NoRender>>, enemy |-> <<>>]

SpriteSetHit ==
  /\ variant = "sprite"
  /\ characters' = <<setHit(characters[1])>>
  /\ lastPoll' = "setHit"
  /\ UNCHANGED <<spriteRest, frameCount, drawn>>

SpriteSetRunning(dir) ==
  /\ variant = "sprite"
  /\ characters' = <<setRunning(characters[1], dir)>>
  /\ lastPoll' = "setRunning"
  /\ UNCHANGED <<spriteRest, frameCount, drawn>>

SpriteSetIdle ==
  /\ variant = "sprite"
  /\ characters' = <<setIdle(characters[1])>>
  /\ lastPoll' = "setIdle"
  /\ UNCHANGED <<spriteRest, frameCount, drawn>>

SpriteRender(count) ==
  /\ variant = "sprite"
  /\ LET r == render(characters[1], count)
     IN /\ characters' = <<r.sprite>>
        /\ drawn' = <<r.quad>>
  /\ frameCount' = count
  /\ lastPoll' = "render"
  /\ UNCHANGED spriteRest

NextRect ==
  \/ SpriteSetHit
  \/ \E dir \in SpriteFlags : SpriteSetRunning(dir)
  \/ SpriteSetIdle
  \/ \E count \in SpriteCounts : SpriteRender(count)

SpecRect == InitRect /\ [][NextRect]_vars

\* C17: the cell a render samples, counted in columns from the sprite's
\* atlas origin, is frameIndex + 8 (Hit) exactly when the sprite can hit and
\* is hit, otherwise frameIndex + 4 (Running) exactly when it can run and is
\* running, otherwise frameIndex (Idle), frameIndex in 0..3 being the index
\* the render looks up with; a sprite that cannot hit never shows a Hit
\* cell, one that cannot run never a Running cell.
C17_CellByGatedMode ==
  [][lastPoll' = "render" =>
       LET s == characters[1]
           frameIndex == characters'[1].index
           col == drawn'[1].col
       IN /\ frameIndex \in 0..3
          /\ col = IF s.canHit /\ s.hit THEN frameIndex + 8
                   ELSE IF s.canRun /\ s.running THEN frameIndex + 4
                   ELSE frameIndex
          /\ ~s.canHit => col # frameIndex + 8
          /\ ~s.canRun => col # frameIndex + 4]_vars

\* C17's case: a sprite that can run but not hit, hit and running, was
\* rendered at index 3: the Running cell, column 7, was sampled (and the hit
\* flag it cannot show is still set).
C17_Witness ==
  /\ variant = "sprite"
  /\ lastPoll = "render"
  /\ characters[1].canRun /\ ~characters[1].canHit
  /\ characters[1].running /\ characters[1].hit
  /\ characters[1].index = 3
  /\ drawn[1].col = 7

\* C17's case for a sprite with neither capability, hit and running: Idle.
C17_WitnessIdleFallback ==
  /\ variant = "sprite"
  /\ lastPoll = "render"
  /\ ~characters[1].canRun /\ ~characters[1].canHit
  /\ characters[1].running /\ characters[1].hit
  /\ characters[1].index = 2
  /\ drawn[1].col = 2

\* The placement snap of the running variant for the raw point (x, y): the
\* point processEventEditor computes, or the column and row Gui::processEvent
\* computes.
SnapOf(x, y) ==
  IF variant = "game"
  THEN LET point == EditorPoint([x |-> x, y |-> y]) IN <<point.x, point.y>>
  ELSE <<GridIndex(x), GridIndex(y)>>

\* The layer of the click just handled holds the click's tile at the
\* snapped point p, and only there at p.
StoredAt(p) ==
  IF variant = "game"
  THEN LET layer == SparseLayer(lastOp.wall)
           at == TilesAt(layer, [x |-> p[1], y |-> p[2]])
       IN Cardinality(at) = 1 /\ \A i \in at : layer[i].def = lastOp.def
  ELSE InGrid(p[1], p[2]) => DenseLayer(lastOp.wall)[p[1]][p[2]] = lastOp.def

\* C18 as stated: the snap is deterministic (a handled left click leaves its
\* tile at the snap of its raw point) and idempotent (the snap of the
\* snapped point is the snapped point).  (Idempotence fails in both
\* variants.)
C18_SnapIdempotent_Original ==
  lastOp.kind # "none" =>
    LET p == SnapOf(lastOp.x, lastOp.y)
    IN /\ Placed => StoredAt(p)
       /\ SnapOf(p[1], p[2]) = p

\* C18 (amended): the snap is a deterministic function of the raw point that
\* depends on the point's cell of the 32 pixel grid only: a handled left click
\* leaves its tile at the snap of its raw point, which is the snap of the
\* cell's corner (x - x mod 32, y - y mod 32), and flooring to the corner is
\* idempotent.  The snap itself maps window pixels to stored coordinates
\* (half scale, or column and row) and is not idempotent.
C18_SnapByCell ==
  lastOp.kind # "none" =>
    LET p == SnapOf(lastOp.x, lastOp.y)
        corner == Cell(lastOp.x, lastOp.y)
    IN /\ Placed => StoredAt(p)
       /\ SnapOf(corner[1], corner[2]) = p
       /\ Cell(corner[1], corner[2]) = corner

\* C18's case: a left click at (33,17), off its cell's corner (32,0), has
\* left its tile at (16,16); the snap of (16,16) would be (0,16).
C18_Witness ==
  /\ variant = "game"
  /\ lastOp.kind = "place" /\ lastOp.x = 33 /\ lastOp.y = 17
  /\ SnapOf(33, 17) = <<16, 16>>
  /\ StoredAt(<<16, 16>>)
  /\ SnapOf(16, 16) = <<0, 16>>

\* C18's case in the dense variant: the click at (33,17) fills column 1,
\* row 0; the snap of (1,0) would be column 0, row 0.
C18_WitnessDense ==
  /\ variant = "gui"
  /\ lastOp.kind = "place" /\ lastOp.x = 33 /\ lastOp.y = 17
  /\ DenseLayer(lastOp.wall)[1][0] = lastOp.def
  /\ SnapOf(1, 0) = <<0, 0>>

\* ------------------------------------- any tile list file (SpecLoad) ----
\* The sparse variant started on a tile list that holds two, one or no
\* "character" record and two, one or no enemy record; ticks come 100 ms
\* apart, the right arrow is held or not, and the overlay's selectors offer
\* the entries of the collections they list (index 0 when there is none).
LoadCharacterLists == {SubSeq(LoadedCharacters, 1, n) : n \in 0..Len(LoadedCharacters)}
LoadEnemyLists == {SubSeq(LoadedEnemies, 1, n) : n \in 0..Len(LoadedEnemies)}
LoadOverlays ==
  [editorMode : {FALSE}, wall : {FALSE}, level : {FALSE}, tileIndex : {0},
   characterIndex : 0..1, enemyIndex : 0..1]
LoadOutcomes == {"crash", "garbage"}

\* The overlay's selectors walk the collections they are given: the index
\* they leave is one of an entry, or 0.
Selectable(overlay) ==
  /\ overlay.characterIndex < Len(characters_) \/ overlay.characterIndex = 0
  /\ overlay.enemyIndex < Len(enemies_) \/ overlay.enemyIndex = 0

InitLoad ==
  /\ variant = "game"
  /\ now = 0 /\ wraps = 0 /\ queue = <<>> /\ mouse = <<0, 0>> /\ keys = {}
  /\ minimized = FALSE
  /\ pc = "idle" /\ fps = [wraps |-> 0, ms |-> 0]
  /\ last_ = 0 /\ frameCount_ = 0 /\ done_ = FALSE
  /\ player_ = [x |-> 100 * 100, y |-> 100 * 100, radius |-> 0, angle |-> 0]
  /\ characters_ \in LoadCharacterLists /\ enemies_ \in LoadEnemyLists
  /\ map_ = <<>> /\ mapWall_ = <<>>
  /\ tileCursorPos_ = <<0, 0>> /\ showTileSelector_ = FALSE
  /\ gameGui_ \in {overlay \in LoadOverlays :
                     overlay.characterIndex = 0 /\ overlay.enemyIndex = 0}
  /\ last = 0 /\ frameCount = 0 /\ done = FALSE
  /\ characters = GuiCharacters /\ enemies = GuiEnemies
  /\ map = [i \in 0..(GridW - 1) |-> [j \in 0..(GridH - 1) |-> EMPTY]]
  /\ mapWall = [i \in 0..(GridW - 1) |-> [j \in 0..(GridH - 1) |-> EMPTY]]
  /\ characterIndex = 0 /\ enemyIndex = 0 /\ tileIndex = 0
  /\ checkBoxRuning = FALSE /\ checkBoxWall = FALSE
  /\ drawn = <<>> /\ lastPoll = "none"
  /\ lastTick = [wraps |-> 0, ms |-> 0] /\ lastOp = NoOp /\ want = {}
  /\ anim = [character |-> [i \in 1..Len(characters_) |-> NoRender],
             enemy |-> [i \in 1..Len(enemies_) |-> NoRender]]

\* The selected character and the selected enemy exist.
InRange ==
  /\ gameGui_.characterIndex < Len(characters_)
  /\ gameGui_.enemyIndex < Len(enemies_)

\* The rest of Game::frame when a selection index is not an index of its
\* collection: characters_[...] (game.cpp 421-454, 463-474) or enemies_[...]
\* (game.cpp 330-331) is std::vector::operator[] out of range, undefined
\* behaviour.  Of what the build can then do two outcomes are kept: the
\* process is killed, or the tick reads and writes memory next to the
\* vector's and goes on, showing nothing that can be relied on.
FrameOutOfRange(outcome) ==
  /\ variant = "game"
  /\ pc = "render" \/ (pc = "events" /\ queue = <<>>)
  /\ ~InRange
  /\ pc' = IF outcome = "crash" THEN "crashed" ELSE "idle"
  /\ lastPoll' = "fault"
  /\ drawn' = <<>>
  /\ lastOp' = NoOp
  /\ UNCHANGED <<variant, envVars, fps, gameVars, guiVars, lastTick, want, anim>>

NextLoad ==
  \/ \E held \in HitKeys : SetKeys(held)
  \/ \E d \in EditSteps : FrameBegin(d, 0)
  \/ \E overlay \in LoadOverlays :
       InRange /\ Selectable(overlay) /\ FrameRender(overlay)
  \/ \E outcome \in LoadOutcomes : FrameOutOfRange(outcome)

SpecLoad == InitLoad /\ [][NextLoad]_vars

\* C19: whenever a tick is about to index a collection with a selection
\* index, the index is less than the collection's size, for every tile list
\* the loader reads.  (Fails for a tile list without character or without
\* enemy records.)
C19_SelectionInRange ==
  /\ (variant = "game" /\ pc \in {"events", "render"}) =>
       /\ gameGui_.characterIndex < Len(characters_)
       /\ gameGui_.enemyIndex < Len(enemies_)
       /\ gameGui_.tileIndex < Len(tiles_)
  /\ (variant = "gui" /\ pc = "events") =>
       /\ characterIndex < Len(characters)
       /\ enemyIndex < Len(enemies)
       /\ tileIndex < Len(tiles)

\* The part of C19 the code keeps: ... for every tile list that holds at
\* least one character and one enemy record.
C19_SelectionInRangeLoaded ==
  (characters_ # <<>> /\ enemies_ # <<>>) => C19_SelectionInRange

\* C19's case: both collections hold two entries and the second of each is
\* selected and was rendered.
C19_Witness ==
  /\ Len(characters_) = 2 /\ Len(enemies_) = 2
  /\ gameGui_.characterIndex = 1 /\ gameGui_.enemyIndex = 1
  /\ pc = "events"
  /\ anim.character[2].renders = 1 /\ anim.enemy[2].renders = 1

\* C19's failing case: the tile list held characters but no enemy; the
\* first tick has indexed the empty enemies_ with index 0.
C19_WitnessNoEnemy ==
  /\ Len(characters_) = 2 /\ enemies_ = <<>>
  /\ gameGui_.enemyIndex = 0
  /\ frameCount_ = 1
  /\ lastPoll = "fault"

\* This step renders a frame of the sparse variant in a tick that edited
\* no layer (an edit ends the event loop and leaves pc at "render"): the
\* layers are as the frame before left them.
StaticRender == variant = "game" /\ pc = "events" /\ pc' = "idle"

\* The tile quads of a draw list, in order.
TileQuads(quads) == SelectSeq(quads, LAMBDA q : q.k \in {"ground", "wall"})

\* The quads of a layer's tiles, in the layer's order.
LayerQuads(kind, layer) == [i \in 1..Len(layer) |-> TileQuad(kind, layer[i])]

\* C20: a frame rendered with no edit since the frame before leaves both
\* layers in the order the frame before left (and drew) them, also when
\* wall tiles share their y, and draws the tiles in that order.  (Fails for
\* wall tiles of equal y: the sort is not stable.)
C20_StaticMapKeepsOrder ==
  [][StaticRender =>
       /\ map_' = map_
       /\ mapWall_' = mapWall_
       /\ TileQuads(drawn') =
            LayerQuads("ground", map_) \o LayerQuads("wall", mapWall_)]_vars

\* The part of C20 the code keeps: the ground layer always, the wall layer
\* when no two of its tiles share their y.
C20_StaticMapKeepsOrderDistinctY ==
  [][StaticRender =>
       /\ map_' = map_
       /\ (\A i, j \in 1..Len(mapWall_) : mapWall_[i].y = mapWall_[j].y => i = j) =>
            /\ mapWall_' = mapWall_
            /\ TileQuads(drawn') =
                 LayerQuads("ground", map_) \o LayerQuads("wall", mapWall_)]_vars

\* C20's case: the third frame is about to be rendered over a map not
\* edited since the second: two wall tiles of different y.
C20_Witness ==
  /\ pc = "events"
  /\ queue = <<>>
  /\ frameCount_ = 3
  /\ lastPoll = "accepted"
  /\ Len(mapWall_) = 2
  /\ mapWall_[1].y < mapWall_[2].y

\* C20's failing case: the frame is about to be rendered over a map not
\* edited since the frame before, with two wall tiles of the same y.
C20_WitnessEqualY ==
  /\ pc = "events"
  /\ queue = <<>>
  /\ frameCount_ = 3
  /\ lastPoll = "accepted"
  /\ Len(mapWall_) = 2
  /\ mapWall_[1].y = mapWall_[2].y
  /\ mapWall_[1].x < mapWall_[2].x

\* ------------------------------------------------ layered draw calls ----
\* The places of the tile quads, of either layer, in the latest frame's draw
\* list.
TilePlaces == QuadsOf("ground") \cup QuadsOf("wall")

\* The ground quads of the latest frame come before its wall quads and
\* before the selected character's quad.
GroundFirst ==
  \A g \in QuadsOf("ground") :
    \A i \in QuadsOf("wall") \cup QuadsOf("character") : g < i

\* The cursor and the overlay of the latest frame come after its tile quads
\* and after the selected character's quad.
CursorAndOverlayLast ==
  \A t \in QuadsOf("cursor") \cup QuadsOf("overlay") :
    \A i \in TilePlaces \cup QuadsOf("character") : i < t

\* C21: in every rendered frame every ground tile is drawn before every
\* wall tile and before the character, and the editor cursor and the overlay
\* are drawn after all the tiles and the character.  (Fails in the dense
\* variant, whose frame() draws the selected character before showMap().)
C21_DrawCallsLayered ==
  drawn # <<>> => GroundFirst /\ CursorAndOverlayLast

\* The part of C21 the code keeps: the sparse variant draws in layers, and
\* the dense variant draws its ground cells before its wall cells and the
\* overlay after both and after the character.
C21_DrawCallsLayeredSparse ==
  drawn # <<>> =>
    /\ variant = "game" => GroundFirst
    /\ \A g \in QuadsOf("ground") : \A i \in QuadsOf("wall") : g < i
    /\ CursorAndOverlayLast

\* C21's case in the sparse variant: a frame with a ground tile, a wall
\* tile, the character, the cursor and the overlay.
C21_Witness ==
  /\ variant = "game"
  /\ QuadsOf("ground") # {}
  /\ QuadsOf("wall") # {}
  /\ QuadsOf("character") # {}
  /\ QuadsOf("cursor") # {}
  /\ QuadsOf("overlay") # {}

\* C21's failing case: a frame of the dense variant draws the character,
\* then a ground tile.
C21_WitnessDenseCharacterFirst ==
  /\ variant = "gui"
  /\ \E c \in QuadsOf("character") : \E g \in QuadsOf("ground") : c < g

\* ------------------------------------------------ independent layers ----
\* This step handles a click as a place or a remove on the ground layer
\* (wall = FALSE) or on the wall layer (wall = TRUE).
Edits(wall) == lastOp'.kind # "none" /\ lastOp'.wall = wall

GroundUnchanged == map_' = map_ /\ map' = map
WallUnchanged == mapWall_' = mapWall_ /\ mapWall' = mapWall

\* Both layers hold a tile at the cell of the raw point (x, y).
BothHold(x, y) ==
  IF variant = "game"
  THEN /\ SparseAt(FALSE, Cell(x, y)) # {}
       /\ SparseAt(TRUE, Cell(x, y)) # {}
  ELSE /\ CellInGrid(Cell(x, y))
       /\ DenseAt(FALSE, Cell(x, y)) # EMPTY
       /\ DenseAt(TRUE, Cell(x, y)) # EMPTY

\* C22: a place or a remove made with the wall toggle off leaves the wall
\* layer as it was, and one made with the wall toggle on leaves the ground
\* layer as it was, whatever the two layers hold at the clicked cell.
C22_LayersIndependent ==
  [][/\ Edits(FALSE) => WallUnchanged
     /\ Edits(TRUE) => GroundUnchanged]_vars

\* C22's case: the sparse variant has removed the ground tile of a cell
\* where both layers held a tile; the wall tile is still there.
C22_Witness ==
  /\ variant = "game"
  /\ lastOp.kind = "remove"
  /\ ~lastOp.wall
  /\ SparseAt(FALSE, Cell(lastOp.x, lastOp.y)) = {}
  /\ SparseAt(TRUE, Cell(lastOp.x, lastOp.y)) # {}

\* C22's case in the dense variant: the wall tile of a cell where both
\* layers hold a tile has been replaced by another; the ground tile is the
\* one placed first.
C22_WitnessDenseReplace ==
  /\ variant = "gui"
  /\ lastOp.kind = "replace"
  /\ lastOp.wall
  /\ lastOp.def # lastOp.old
  /\ BothHold(lastOp.x, lastOp.y)
  /\ DenseAt(TRUE, Cell(lastOp.x, lastOp.y)) = lastOp.def
  /\ DenseAt(FALSE, Cell(lastOp.x, lastOp.y)) = lastOp.old

\* ---------------------------------------------------- the frame-rate cap ----
\* This step is a poll of frame() that is accepted: the timestamp is stored
\* and the frame counter incremented.
TickAccepted == Poll /\ Ticks' = Ticks + 1

\* The clock readings of the accepted tick of this step and of the accepted
\* tick before it are at least the minimum frame interval apart.
ApartFromLastTick ==
  \/ lastTick'.wraps > lastTick.wraps
  \/ lastTick'.ms - lastTick.ms >= minFrameDuration

\* C23: any two consecutively accepted ticks are at least 1000/30 = 33 ms
\* apart, whatever the 64-bit clock reads, readings of 2^32 ms and more
\* included.  (Fails past 2^32 ms: the timestamp field keeps 32 bits.)
C23_FrameRateCap ==
  [][(TickAccepted /\ Ticks > 0) => ApartFromLastTick]_vars

\* The part of C23 the code keeps: the cap for clock readings below 2^32 ms.
C23_FrameRateCapBelowWrap ==
  [][(TickAccepted /\ Ticks > 0 /\ wraps' = 0) => ApartFromLastTick]_vars

\* C23's case below 2^32 ms: two ticks accepted, at 33 ms and, 33 ms later,
\* at 66 ms.
C23_Witness ==
  /\ wraps = 0
  /\ Ticks = 2
  /\ lastPoll = "accepted"
  /\ lastTick = [wraps |-> 0, ms |-> 66]
  /\ fps = [wraps |-> 0, ms |-> 33]

\* C23's failing case: the clock has passed 2^32 ms and three ticks in a row
\* were accepted 11 ms apart, at 2^32 + 11, 2^32 + 22 and 2^32 + 33 ms.
C23_WitnessThreeInARow ==
  /\ wraps = 1 /\ now = 33
  /\ Ticks = 3
  /\ pc = "events"
  /\ lastTick = [wraps |-> 1, ms |-> 33]

\* ------------------------------------- every event is routed (SpecLive) ----
\* The sparse variant, the window shown, Edit or Play mode: the user clicks
\* left at (40,40), presses A and asks to quit; an event that is still
\* pending is not sent again.  The loop calling frame() never stops while
\* done() is false: every step of frame() that stays possible is taken in
\* the end.
LiveEvents ==
  {Click("LEFT", <<40, 40>>, FALSE), Key("KEY_DOWN", "A", FALSE), Quit(FALSE)}
LiveOverlays ==
  [editorMode : BOOLEAN, wall : {FALSE}, level : {FALSE}, tileIndex : {0},
   characterIndex : {0}, enemyIndex : {0}]

Pending(event) == \E i \in 1..Len(queue) : queue[i] = event

InitLive == InitWith(LiveOverlays, {<<>>}) /\ variant = "game"

NextLive ==
  \/ \E event \in LiveEvents : ~Pending(event) /\ PushEvent(event)
  \/ \E d \in EditSteps : FrameBegin(d, 0)
  \/ ProcessEvent
  \/ \E overlay \in LiveOverlays : FrameRender(overlay)

SpecLive ==
  /\ InitLive
  /\ [][NextLive]_vars
  /\ WF_vars(\E d \in EditSteps : FrameBegin(d, 0))
  /\ WF_vars(ProcessEvent)
  /\ WF_vars(\E overlay \in LiveOverlays : FrameRender(overlay))

\* What the router does with the event a step polls: the overlay takes it,
\* or the cursor is shown, a quit request sets done_, and the event goes to
\* the editor (a click in Edit mode, which ends the loop) or to the
\* character handler.
Routed(event) ==
  IF event.claimed
  THEN ~showTileSelector_' /\ lastOp'.kind = "none"
  ELSE /\ showTileSelector_'
       /\ AsksToQuit(event) => done_'
       /\ IF gameGui_.editorMode /\ event.type = "MOUSE_BUTTON_DOWN"
          THEN /\ lastOp'.kind # "none"
               /\ <<lastOp'.x, lastOp'.y>> = <<event.x, event.y>>
               /\ pc' = "render"
          ELSE /\ lastOp'.kind = "none"
               /\ pc' = "events"
               /\ (event.type = "KEY_DOWN" /\ event.key = "A") =>
                    characters_'[gameGui_.characterIndex + 1].hit

\* This step polls event, the oldest pending one, and routes it.
Dispatched(event) ==
  /\ pc = "events"
  /\ queue # <<>>
  /\ Head(queue) = event
  /\ queue' = Tail(queue)
  /\ Routed(event)

\* The clock of the session leaves room for as many more ticks as the queue
\* can hold events.
TicksLeft == now + MaxQueue * 100 <= MaxNow

\* C24: no event is lost or handled twice, and every pending event is
\* dispatched in the end:
\*  - a step leaves the queue as it is, or appends one new event to it, or
\*    polls its oldest event and routes that event; nothing else takes an
\*    event out, and a click is handled only by the step that polls it;
\*  - while ticks keep being accepted (the window is shown, the session's
\*    clock has ticks left and done_ stays false), every pending event
\*    leaves the queue, that is, by the first part, is dispatched, also when
\*    the editor click before it ended its tick's event loop.
C24_EveryEventDispatchedOnce ==
  /\ [][/\ \/ queue' = queue
           \/ \E event \in LiveEvents : queue' = Append(queue, event)
           \/ Dispatched(Head(queue))
        /\ lastOp'.kind # "none" => Dispatched(Head(queue))]_vars
  /\ \A event \in LiveEvents :
       (Pending(event) /\ TicksLeft) ~> (done_ \/ ~Pending(event))

\* C24's case: a left click and an A key were pending in Edit mode; the
\* first tick handled the click and left the loop, and the second tick has
\* polled the A key.
C24_Witness ==
  /\ frameCount_ = 2
  /\ pc = "events"
  /\ queue = <<>>
  /\ Len(map_) = 1
  /\ lastTick.ms = 200
  /\ characters_[gameGui_.characterIndex + 1].hit
  /\ ~done_

\* ------------------------------------------- the dense grid (SpecGrid) ----
\* The dense variant: the user clicks left in the last cell of the grid
\* (479,319) and one column to its right (480,40), and clicks right in the
\* last cell (450,300) and one row below the grid (40,320); the tile combo
\* holds the first or the last entry of the catalog and the wall check box
\* changes between ticks 100 ms apart.
GridEvents ==
  {Click("LEFT", <<479, 319>>, FALSE), Click("LEFT", <<480, 40>>, FALSE),
   Click("RIGHT", <<450, 300>>, FALSE), Click("RIGHT", <<40, 320>>, FALSE)}
GridWidgets ==
  [characterIndex : {0}, enemyIndex : {0}, tileIndex : {0, Len(tiles) - 1},
   checkBoxRuning : {FALSE}, checkBoxWall : BOOLEAN]

InitGrid == InitWith(PaceOverlays, {<<>>}) /\ variant = "gui"

NextGrid ==
  \/ \E event \in GridEvents : PushEvent(event)
  \/ \E d \in EditSteps : GuiFrameBegin(d, 0)
  \/ GuiProcessEvent
  \/ \E sel \in GridWidgets : GuiFrameRender(sel)

SpecGrid == InitGrid /\ [][NextGrid]_vars

\* The cells of a layer: GridW columns of GridH rows.
GridCells == (0..(GridW - 1)) \X (0..(GridH - 1))

\* Every cell of both layers holds the empty sentinel or an index into the
\* tile catalog.
CellsValid ==
  \A wall \in BOOLEAN :
    /\ DOMAIN DenseLayer(wall) = 0..(GridW - 1)
    /\ \A c \in GridCells :
         /\ DOMAIN DenseLayer(wall)[c[1]] = 0..(GridH - 1)
         /\ \/ DenseLayer(wall)[c[1]][c[2]] = EMPTY
            \/ DenseLayer(wall)[c[1]][c[2]] \in 0..(Len(tiles) - 1)

\* The effect of this step, which polls the click event: outside the grid
\* nothing, inside it the cell (x/32, y/32) of the layer the wall check box
\* chooses holds the selected tile (left button) or the sentinel (right
\* button), and every other cell of both layers is as it was.
GridClickEffect(event) ==
  LET x == event.x \div 32
      y == event.y \div 32
      before == IF checkBoxWall THEN mapWall ELSE map
      after == IF checkBoxWall THEN mapWall' ELSE map'
  IN IF <<x, y>> \notin GridCells
     THEN map' = map /\ mapWall' = mapWall
     ELSE /\ IF checkBoxWall THEN map' = map ELSE mapWall' = mapWall
          /\ after[x][y] = IF event.button = "LEFT" THEN tileIndex ELSE EMPTY
          /\ \A c \in GridCells \ {<<x, y>>} : after[c[1]][c[2]] = before[c[1]][c[2]]

\* C25: in the dense variant every cell of both layers always holds the
\* empty sentinel or a valid index into the tile catalog; a left or right
\* click whose cell (x/32, y/32) lies outside the 15 x 10 grid leaves both
\* layers unchanged, and a click inside writes only that one cell of the
\* layer the wall check box chooses.
C25_DenseGridCells ==
  /\ []CellsValid
  /\ [][(variant = "gui" /\ Polled /\ Head(queue).type = "MOUSE_BUTTON_DOWN")
          => GridClickEffect(Head(queue))]_vars

\* C25's case: the last entry of the catalog stands in the last ground cell
\* and nowhere else, and the latest click, one column to the right of the
\* grid, has changed nothing.
C25_Witness ==
  /\ variant = "gui"
  /\ lastOp.x = 480 /\ lastOp.y = 40
  /\ ~lastOp.wall
  /\ map[GridW - 1][GridH - 1] = Len(tiles) - 1
  /\ \A c \in GridCells \ {<<GridW - 1, GridH - 1>>} : map[c[1]][c[2]] = EMPTY
  /\ LayerEmpty(TRUE)

\* C25's case inside the grid: a click in the last cell has written the
\* wall layer's cell (14, 9), over a ground layer that holds a tile in its
\* own cell (14, 9).
C25_WitnessLastCell ==
  /\ variant = "gui"
  /\ lastOp.x = 479 /\ lastOp.y = 319
  /\ lastOp.wall
  /\ mapWall[GridW - 1][GridH - 1] = 0
  /\ \A c \in GridCells \ {<<GridW - 1, GridH - 1>>} : mapWall[c[1]][c[2]] = EMPTY
  /\ ~LayerEmpty(FALSE)

====
